---- MODULE Spec2Model ----
(***************************************************************************)
(* Model of the credit policy engine                                       *)
(* (backend/app/services/policy_engine.py, class PolicyEngine).            *)
(*                                                                         *)
(* One evaluation of evaluate_application is a walk through the stages     *)
(*   START -> HARD_REJECT_CHECK -> FOIR_CHECK -> CREDIT_ASSESS ->          *)
(*   RISK_SCALE -> TERM_SOLVE -> DONE                                      *)
(* over two caller-owned records, application_data and bureau_data, and    *)
(* the wall clock that the recency checks read.                            *)
(*                                                                         *)
(* Representation.                                                         *)
(*  - A Python value is a tagged record [t, n, s]: t = "num" (value n),    *)
(*    "str" (value s, a string that is no number and no date), "date" (a   *)
(*    string "YYYY-MM-DD" that parses to day number n), "none" (None) or   *)
(*    "missing" (the key is absent from the dict).                         *)
(*  - Money is in whole rupees.  A Python float that is a ratio is kept in *)
(*    fixed point: foir and monthly rates in millionths (Scale), the risk  *)
(*    scale factor in hundredths, annual rates in thousandths of a percent.*)
(*  - Days are integers; day 0 is the day of the first evaluation.         *)
(*  - An exception is a record [fault |-> TRUE, exc |-> <type name>].      *)
(***************************************************************************)
EXTENDS Integers, Sequences, FiniteSets, TLC

(***************************************************************************)
(* Python values                                                           *)
(***************************************************************************)
Num(n) == [t |-> "num", n |-> n, s |-> ""]
Str(s) == [t |-> "str", n |-> 0, s |-> s]
Date(d) == [t |-> "date", n |-> d, s |-> ""]
NoneV == [t |-> "none", n |-> 0, s |-> ""]
Missing == [t |-> "missing", n |-> 0, s |-> ""]

IsNum(x) == x.t = "num"

\* dict.get(key, default): the default only when the key is absent
Get(x, default) == IF x.t = "missing" THEN default ELSE x

\* truthiness of a scalar (if x: ...)
Truthy(x) ==
  CASE x.t = "num" -> x.n # 0
    [] x.t = "str" -> x.s # ""
    [] x.t = "date" -> TRUE
    [] OTHER -> FALSE

(***************************************************************************)
(* Fixed-point arithmetic                                                  *)
(***************************************************************************)
Scale == 1000 * 1000

Abs(x) == IF x < 0 THEN 0 - x ELSE x
Sign(x) == IF x < 0 THEN 0 - 1 ELSE 1
Min2(a, b) == IF a <= b THEN a ELSE b
Max2(a, b) == IF a >= b THEN a ELSE b

\* <<quotient, remainder>> of a*b by c for a, b >= 0 and c > 0, computed
\* digit by digit (base 100) so that no intermediate product leaves the
\* 32-bit integers of the model checker
RECURSIVE MulDivNat(_, _, _)
MulDivNat(a, b, c) ==
  IF b = 0 THEN <<0, 0>>
  ELSE LET p == MulDivNat(a, b \div 100, c)
           u == (p[2] * 100) + (a * (b % 100))
       IN <<(p[1] * 100) + (u \div c), u % c>>

\* a * b / c, truncated toward zero (c # 0)
MulDiv(a, b, c) ==
  Sign(a) * Sign(b) * Sign(c) * MulDivNat(Abs(a), Abs(b), Abs(c))[1]

\* x ** n for a fixed-point base x > 0 (in millionths) and a natural n
RECURSIVE PowNat(_, _)
PowNat(x, n) ==
  IF n = 0 THEN Scale
  ELSE LET h == PowNat(x, n \div 2)
           sq == MulDiv(h, h, Scale)
       IN IF n % 2 = 0 THEN sq ELSE MulDiv(sq, x, Scale)

\* x ** n for any integer n
Pow(x, n) == IF n >= 0 THEN PowNat(x, n) ELSE MulDiv(Scale, Scale, PowNat(x, 0 - n))

(***************************************************************************)
(* Containers                                                              *)
(***************************************************************************)
\* a Python list value, None in its place, or an absent key
List(items) == [t |-> "list", items |-> items]
NoneList == [t |-> "none", items |-> <<>>]
MissingList == [t |-> "missing", items |-> <<>>]
GetList(x) == IF x.t = "missing" THEN List(<<>>) ELSE x

\* exceptions and normal returns of a step
Raise(e) == [fault |-> TRUE, exc |-> e]
Ok(v) == [fault |-> FALSE, exc |-> "", val |-> v]

\* one entry of PolicyResult.reasons / PolicyResult.conditions: the text is
\* kept as its template (kind) and the values the f-string interpolates
Reason(kind, value, threshold, subject) ==
  [kind |-> kind, value |-> value, threshold |-> threshold, subject |-> subject]

(***************************************************************************)
(* Policy constants                                                        *)
(***************************************************************************)
MIN_INCOME_THRESHOLD == 25000
MAX_FOIR == 550000
MIN_CREDIT_SCORE == 650
MAX_LOAN_AMOUNT == 2000000
MIN_LOAN_AMOUNT == 50000
DEFAULT_WINDOW_DAYS == 730
ENQUIRY_WINDOW_DAYS == 90
MAX_RECENT_ENQUIRIES == 5
MIN_AGE == 21
MAX_AGE == 65
MAX_DEBT_VELOCITY == 200

\* RISK_SCALE_FACTORS[category], in hundredths; a KeyError cannot occur for
\* the four categories _assess_credit_profile assigns
RISK_SCALE_FACTORS(category) ==
  CASE category = "EXCELLENT" -> 80
    [] category = "GOOD" -> 90
    [] category = "FAIR" -> 100
    [] category = "POOR" -> 110

\* INCOME_PRIORITY_MULTIPLIERS.get(source_type, 0.6), in tenths
INCOME_PRIORITY_MULTIPLIERS(source_type) ==
  CASE source_type.t = "str" /\ source_type.s = "salary" -> 10
    [] source_type.t = "str" /\ source_type.s = "rental" -> 8
    [] source_type.t = "str" /\ source_type.s = "business" -> 7
    [] source_type.t = "str" /\ source_type.s = "pension" -> 9
    [] source_type.t = "str" /\ source_type.s = "other" -> 6
    [] OTHER -> 6

\* EMPLOYMENT_MULTIPLIERS.get(employment_type, 0.9), in hundredths
EMPLOYMENT_MULTIPLIERS(employment_type) ==
  CASE employment_type.t = "str" /\ employment_type.s = "government" -> 100
    [] employment_type.t = "str" /\ employment_type.s = "private_mnc" -> 95
    [] employment_type.t = "str" /\ employment_type.s = "private_domestic" -> 90
    [] employment_type.t = "str" /\ employment_type.s = "self_employed" -> 80
    [] employment_type.t = "str" /\ employment_type.s = "business" -> 75
    [] OTHER -> 90

\* variant: .get(tenure, 12.5), the default of another row
BASE_INTEREST_RATES_default_12_5(tenure) ==
  CASE tenure.t = "num" /\ tenure.n = 12 -> 11500
    [] tenure.t = "num" /\ tenure.n = 24 -> 12000
    [] tenure.t = "num" /\ tenure.n = 36 -> 12500
    [] tenure.t = "num" /\ tenure.n = 48 -> 13000
    [] tenure.t = "num" /\ tenure.n = 60 -> 13500
    [] OTHER -> 12500

\* BASE_INTEREST_RATES.get(tenure, 12.0), in thousandths of a percent a year
BASE_INTEREST_RATES(tenure) ==
  CASE tenure.t = "num" /\ tenure.n = 12 -> 11500
    [] tenure.t = "num" /\ tenure.n = 24 -> 12000
    [] tenure.t = "num" /\ tenure.n = 36 -> 12500
    [] tenure.t = "num" /\ tenure.n = 48 -> 13000
    [] tenure.t = "num" /\ tenure.n = 60 -> 13500
    [] OTHER -> 12000

\* min_employment.get(employment_type, 2)
min_employment(employment_type) ==
  CASE employment_type.t = "str" /\ employment_type.s = "government" -> 1
    [] employment_type.t = "str" /\ employment_type.s = "private_mnc" -> 2
    [] employment_type.t = "str" /\ employment_type.s = "private_domestic" -> 2
    [] employment_type.t = "str" /\ employment_type.s = "self_employed" -> 3
    [] employment_type.t = "str" /\ employment_type.s = "business" -> 3
    [] OTHER -> 2

\* rate / 100 / 12 as a fraction in millionths, for a rate in thousandths of
\* a percent
MonthlyRate(rate) == (rate * 5) \div 6

(***************************************************************************)
(* Hard reject rules.  Each returns Ok(<<reasons>>) (the empty tuple for   *)
(* the Python None) or raises.                                             *)
(***************************************************************************)
\* variant: an absent monthly_income defaults to the threshold instead of 0
_check_minimum_income_default(app, bureau) ==
  LET monthly_income == Get(app.monthly_income, Num(MIN_INCOME_THRESHOLD))
  IN IF ~IsNum(monthly_income) THEN Raise("TypeError")
     ELSE IF monthly_income.n < MIN_INCOME_THRESHOLD
          THEN Ok(<<Reason("min_income", monthly_income.n, MIN_INCOME_THRESHOLD, "")>>)
          ELSE Ok(<<>>)

_check_minimum_income(app, bureau) ==
  LET monthly_income == Get(app.monthly_income, Num(0))
  IN IF ~IsNum(monthly_income) THEN Raise("TypeError")
     ELSE IF monthly_income.n < MIN_INCOME_THRESHOLD
          THEN Ok(<<Reason("min_income", monthly_income.n, MIN_INCOME_THRESHOLD, "")>>)
          ELSE Ok(<<>>)

\* variant: the rule reports no score as too low
_check_credit_score_no_floor(app, bureau) ==
  IF bureau.t = "none" THEN Raise("AttributeError")
  ELSE LET credit_score == Get(bureau.credit_score, Num(0))
       IN IF ~IsNum(credit_score) THEN Raise("TypeError")
          ELSE Ok(<<>>)

_check_credit_score(app, bureau) ==
  IF bureau.t = "none" THEN Raise("AttributeError")
  ELSE LET credit_score == Get(bureau.credit_score, Num(0))
       IN IF ~IsNum(credit_score) THEN Raise("TypeError")
          ELSE IF credit_score.n < MIN_CREDIT_SCORE
               THEN Ok(<<Reason("credit_score", credit_score.n, MIN_CREDIT_SCORE, "")>>)
               ELSE Ok(<<>>)

\* variant: "and" in place of "or" in the range test
_check_age_eligibility_and(app, bureau) ==
  LET age == Get(app.age, Num(0))
  IN IF ~IsNum(age) THEN Raise("TypeError")
     ELSE IF age.n < MIN_AGE /\ age.n > MAX_AGE
          THEN Ok(<<Reason("age", age.n, MIN_AGE, "")>>)
          ELSE Ok(<<>>)

_check_age_eligibility(app, bureau) ==
  LET age == Get(app.age, Num(0))
  IN IF ~IsNum(age) THEN Raise("TypeError")
     ELSE IF age.n < MIN_AGE \/ age.n > MAX_AGE
          THEN Ok(<<Reason("age", age.n, MIN_AGE, "")>>)
          ELSE Ok(<<>>)

_check_employment_stability(app, bureau) ==
  LET employment_type == Get(app.employment_type, Str(""))
      employment_years == Get(app.employment_years, Num(0))
      required_years == min_employment(employment_type)
  IN IF ~IsNum(employment_years) THEN Raise("TypeError")
     ELSE IF employment_years.n < required_years
          THEN Ok(<<Reason("employment", employment_years.n, required_years,
                           employment_type.s)>>)
          ELSE Ok(<<>>)

\* variant: a date that does not parse counts as recent
_is_recent_date_unparsed_recent(date_str, days, clock) ==
  IF date_str.t = "date" THEN date_str.n > clock - days ELSE TRUE

\* date > datetime.now() - timedelta(days), or False when strptime raises
_is_recent_date(date_str, days, clock) ==
  IF date_str.t = "date" THEN date_str.n > clock - days ELSE FALSE

\* variant: >= in place of > in the comparison with now - 730 days
RECURSIVE DefaultReasonsInclusive(_, _, _)
DefaultReasonsInclusive(accounts, i, clock) ==
  IF i > Len(accounts) THEN <<>>
  ELSE LET account == accounts[i]
           last_payment_date == Get(account.last_payment_date, NoneV)
           subject == Get(account.account_type, Str("account")).s
           mine ==
             IF account.status.t = "str"
                /\ account.status.s \in {"default", "write_off", "settled"}
                /\ Truthy(last_payment_date)
             THEN IF last_payment_date.t = "date"
                  THEN IF last_payment_date.n >= clock - DEFAULT_WINDOW_DAYS
                       THEN <<Reason("recent_default", 0, DEFAULT_WINDOW_DAYS, subject)>>
                       ELSE <<>>
                  ELSE <<Reason("default", 0, 0, subject)>>
             ELSE <<>>
       IN mine \o DefaultReasonsInclusive(accounts, i + 1, clock)

\* the reasons _check_bureau_defaults appends for the accounts from index i
RECURSIVE DefaultReasons(_, _, _)
DefaultReasons(accounts, i, clock) ==
  IF i > Len(accounts) THEN <<>>
  ELSE LET account == accounts[i]
           last_payment_date == Get(account.last_payment_date, NoneV)
           subject == Get(account.account_type, Str("account")).s
           mine ==
             IF account.status.t = "str"
                /\ account.status.s \in {"default", "write_off", "settled"}
                /\ Truthy(last_payment_date)
             THEN IF last_payment_date.t = "date"
                  THEN IF last_payment_date.n > clock - DEFAULT_WINDOW_DAYS
                       THEN <<Reason("recent_default", 0, DEFAULT_WINDOW_DAYS, subject)>>
                       ELSE <<>>
                  ELSE <<Reason("default", 0, 0, subject)>>
             ELSE <<>>
       IN mine \o DefaultReasons(accounts, i + 1, clock)

\* len([e for e in enquiries if self._is_recent_date(e.get("date"), 90)])
RECURSIVE RecentEnquiries(_, _, _)
RecentEnquiries(enquiries, i, clock) ==
  IF i > Len(enquiries) THEN 0
  ELSE (IF _is_recent_date(Get(enquiries[i].date, NoneV), ENQUIRY_WINDOW_DAYS, clock)
        THEN 1 ELSE 0) + RecentEnquiries(enquiries, i + 1, clock)

_check_bureau_defaults(app, bureau, clock) ==
  LET accounts == GetList(bureau.accounts)
      enquiries == GetList(bureau.enquiries)
      recent == RecentEnquiries(enquiries.items, 1, clock)
  IN IF accounts.t = "none" THEN Raise("TypeError")
     ELSE IF enquiries.t = "none" THEN Raise("TypeError")
     ELSE Ok(DefaultReasons(accounts.items, 1, clock)
             \o (IF recent > MAX_RECENT_ENQUIRIES
                 THEN <<Reason("enquiries", recent, MAX_RECENT_ENQUIRIES, "")>>
                 ELSE <<>>))

_check_debt_velocity(app, bureau) ==
  LET platform_data == bureau.platform_data
      debt_velocity == Get(platform_data.debt_velocity_12m, Num(0))
  IN IF platform_data.t = "none" THEN Raise("AttributeError")
     ELSE IF platform_data.t = "missing" THEN Ok(<<>>)
     ELSE IF ~IsNum(debt_velocity) THEN Raise("TypeError")
     ELSE IF debt_velocity.n > MAX_DEBT_VELOCITY
          THEN Ok(<<Reason("debt_velocity", debt_velocity.n, MAX_DEBT_VELOCITY, "")>>)
          ELSE Ok(<<>>)

\* self.hard_reject_rules, in the order __init__ lists them
hard_reject_rules ==
  <<"_check_minimum_income", "_check_credit_score", "_check_age_eligibility",
    "_check_employment_stability", "_check_bureau_defaults", "_check_debt_velocity">>

\* await rule(application_data, bureau_data)
CallRule(rule, app, bureau, clock) ==
  CASE rule = "_check_minimum_income" -> _check_minimum_income(app, bureau)
    [] rule = "_check_credit_score" -> _check_credit_score(app, bureau)
    [] rule = "_check_age_eligibility" -> _check_age_eligibility(app, bureau)
    [] rule = "_check_employment_stability" -> _check_employment_stability(app, bureau)
    [] rule = "_check_bureau_defaults" -> _check_bureau_defaults(app, bureau, clock)
    [] rule = "_check_debt_velocity" -> _check_debt_velocity(app, bureau)

\* variant: the loop returns at the first rule that reports a reason
RECURSIVE RunRulesShortCircuit(_, _, _, _, _)
RunRulesShortCircuit(i, reject_reasons, app, bureau, clock) ==
  IF i > Len(hard_reject_rules) THEN Ok(reject_reasons)
  ELSE LET result == CallRule(hard_reject_rules[i], app, bureau, clock)
       IN IF result.fault THEN result
          ELSE IF result.val # <<>> THEN Ok(reject_reasons \o result.val)
          ELSE RunRulesShortCircuit(i + 1, reject_reasons, app, bureau, clock)

\* variant: reject_reasons = result in place of reject_reasons.extend(result)
RECURSIVE RunRulesKeepLast(_, _, _, _, _)
\* variant: a rule that raises is skipped and the reasons collected so far are kept
RECURSIVE RunRulesSkipFaulty(_, _, _, _, _)
RunRulesSkipFaulty(i, reject_reasons, app, bureau, clock) ==
  IF i > Len(hard_reject_rules) THEN Ok(reject_reasons)
  ELSE LET outcome == CallRule(hard_reject_rules[i], app, bureau, clock)
       IN IF outcome.fault
          THEN RunRulesSkipFaulty(i + 1, reject_reasons, app, bureau, clock)
          ELSE RunRulesSkipFaulty(i + 1, reject_reasons \o outcome.val, app, bureau, clock)

RunRulesKeepLast(i, reject_reasons, app, bureau, clock) ==
  IF i > Len(hard_reject_rules) THEN Ok(reject_reasons)
  ELSE LET result == CallRule(hard_reject_rules[i], app, bureau, clock)
       IN IF result.fault THEN result
          ELSE RunRulesKeepLast(i + 1, result.val, app, bureau, clock)

\* the for loop of _apply_hard_reject_rules from rule i on, reject_reasons
\* being the reasons collected so far; a rule that raises ends the loop
RECURSIVE RunRules(_, _, _, _, _)
RunRules(i, reject_reasons, app, bureau, clock) ==
  IF i > Len(hard_reject_rules) THEN Ok(reject_reasons)
  ELSE LET result == CallRule(hard_reject_rules[i], app, bureau, clock)
       IN IF result.fault THEN result
          ELSE RunRules(i + 1, reject_reasons \o result.val, app, bureau, clock)

_apply_hard_reject_rules(app, bureau, clock) == RunRules(1, <<>>, app, bureau, clock)

(***************************************************************************)
(* Waterfall stages                                                        *)
(***************************************************************************)
\* the loop of _calculate_adjusted_income over income_sources from index i:
\* total_adjusted in tenths of a rupee (an amount times a weight in tenths);
\* raises when an amount is no number
RECURSIVE SourcesTotal(_, _)
SourcesTotal(income_sources, i) ==
  IF i > Len(income_sources) THEN Ok(0)
  ELSE LET source == income_sources[i]
           amount == Get(source.amount, Num(0))
           multiplier == INCOME_PRIORITY_MULTIPLIERS(Get(source.type, Str("other")))
           rest == SourcesTotal(income_sources, i + 1)
       IN IF ~IsNum(amount) THEN Raise("TypeError")
          ELSE IF rest.fault THEN rest
          ELSE Ok((amount.n * multiplier) + rest.val)

\* variant: the weighted sources are added to monthly_income
_calculate_adjusted_income_plus_base(app) ==
  LET base_income == Get(app.monthly_income, Num(0))
      employment_type == Get(app.employment_type, Str("private_domestic"))
      employment_multiplier == EMPLOYMENT_MULTIPLIERS(employment_type)
      income_sources == GetList(app.income_sources)
      total_adjusted == SourcesTotal(income_sources.items, 1)
  IN IF income_sources.t = "list" /\ income_sources.items # <<>>
     THEN IF total_adjusted.fault THEN total_adjusted
          ELSE Ok((((base_income.n * 10) + total_adjusted.val) * employment_multiplier)
                    \div 1000)
     ELSE IF ~IsNum(base_income) THEN Raise("TypeError")
          ELSE Ok((base_income.n * employment_multiplier) \div 100)

\* adjusted monthly income in rupees
_calculate_adjusted_income(app) ==
  LET base_income == Get(app.monthly_income, Num(0))
      employment_type == Get(app.employment_type, Str("private_domestic"))
      employment_multiplier == EMPLOYMENT_MULTIPLIERS(employment_type)
      income_sources == GetList(app.income_sources)
      total_adjusted == SourcesTotal(income_sources.items, 1)
  IN IF income_sources.t = "list" /\ income_sources.items # <<>>
     THEN IF total_adjusted.fault THEN total_adjusted
          ELSE Ok((total_adjusted.val * employment_multiplier) \div 1000)
     ELSE IF ~IsNum(base_income) THEN Raise("TypeError")
          ELSE Ok((base_income.n * employment_multiplier) \div 100)

\* total_emis of _calculate_foir: active loan and credit_card accounts
RECURSIVE FoirEmis(_, _)
FoirEmis(accounts, i) ==
  IF i > Len(accounts) THEN Ok(0)
  ELSE LET account == accounts[i]
           emi == Get(account.emi_amount, Num(0))
           rest == FoirEmis(accounts, i + 1)
       IN IF account.status.t = "str" /\ account.status.s = "active"
             /\ account.account_type.t = "str"
             /\ account.account_type.s \in {"loan", "credit_card"}
          THEN IF ~IsNum(emi) THEN Raise("TypeError")
               ELSE IF rest.fault THEN rest
               ELSE Ok(emi.n + rest.val)
          ELSE rest

\* requested_amount * r * (1 + r)**n / ((1 + r)**n - 1), in hundredths of a
\* rupee
AnnuityEmi(requested_amount, monthly_rate, tenure) ==
  LET growth == Pow(Scale + monthly_rate, tenure)
  IN MulDiv(requested_amount, MulDiv(monthly_rate, growth, growth - Scale),
            Scale \div 100)

\* variant: "else 0.0" in place of "else 1.0" for a non-positive income
_calculate_foir_else_zero(app, bureau) ==
  LET monthly_income == _calculate_adjusted_income(app)
      accounts == GetList(bureau.accounts)
      total_emis == FoirEmis(accounts.items, 1)
      requested_amount == Get(app.requested_amount, Num(0))
      proposed_tenure == Get(app.preferred_tenure, Num(24))
      estimated_rate == BASE_INTEREST_RATES(proposed_tenure)
      monthly_rate == MonthlyRate(estimated_rate)
      proposed_emi == AnnuityEmi(requested_amount.n, monthly_rate, proposed_tenure.n)
      total_obligations == (total_emis.val * 100) + proposed_emi
  IN IF monthly_income.fault THEN monthly_income
     ELSE IF accounts.t = "none" THEN Raise("TypeError")
     ELSE IF total_emis.fault THEN total_emis
     ELSE IF ~IsNum(requested_amount) \/ ~IsNum(proposed_tenure) THEN Raise("TypeError")
     ELSE IF proposed_tenure.n = 0 THEN Raise("ZeroDivisionError")
     ELSE IF monthly_income.val > 0
          THEN Ok(MulDiv(Scale \div 100, total_obligations, monthly_income.val))
          ELSE Ok(0)

\* foir in millionths
_calculate_foir(app, bureau) ==
  LET monthly_income == _calculate_adjusted_income(app)
      accounts == GetList(bureau.accounts)
      total_emis == FoirEmis(accounts.items, 1)
      requested_amount == Get(app.requested_amount, Num(0))
      proposed_tenure == Get(app.preferred_tenure, Num(24))
      estimated_rate == BASE_INTEREST_RATES(proposed_tenure)
      monthly_rate == MonthlyRate(estimated_rate)
      proposed_emi == AnnuityEmi(requested_amount.n, monthly_rate, proposed_tenure.n)
      total_obligations == (total_emis.val * 100) + proposed_emi
  IN IF monthly_income.fault THEN monthly_income
     ELSE IF accounts.t = "none" THEN Raise("TypeError")
     ELSE IF total_emis.fault THEN total_emis
     ELSE IF ~IsNum(requested_amount) \/ ~IsNum(proposed_tenure) THEN Raise("TypeError")
     ELSE IF proposed_tenure.n = 0 THEN Raise("ZeroDivisionError")
     ELSE IF monthly_income.val > 0
          THEN Ok(MulDiv(Scale \div 100, total_obligations, monthly_income.val))
          ELSE Ok(Scale)

\* set(account.get("account_type") for account in accounts)
AccountTypes(accounts) == {Get(accounts[i].account_type, NoneV) : i \in 1..Len(accounts)}

\* account mix score, in hundredths
_assess_account_mix(bureau) ==
  LET account_types == AccountTypes(GetList(bureau.accounts).items)
  IN IF Str("credit_card") \in account_types /\ Str("loan") \in account_types THEN 100
     ELSE IF Cardinality(account_types) > 1 THEN 80
     ELSE 60

\* sum(1 for p in payment_history if p == "0")
RECURSIVE OnTimePayments(_, _)
OnTimePayments(payment_history, i) ==
  IF i > Len(payment_history) THEN 0
  ELSE (IF payment_history[i] = "0" THEN 1 ELSE 0)
       + OnTimePayments(payment_history, i + 1)

\* total_score of _assess_payment_history, in millionths
RECURSIVE PaymentScoreTotal(_, _)
PaymentScoreTotal(accounts, i) ==
  IF i > Len(accounts) THEN 0
  ELSE LET payment_history == accounts[i].payment_history
       IN (IF payment_history # <<>>
           THEN MulDiv(OnTimePayments(payment_history, 1), Scale, Len(payment_history))
           ELSE 0) + PaymentScoreTotal(accounts, i + 1)

\* payment history score, in millionths
_assess_payment_history(bureau) ==
  LET accounts == GetList(bureau.accounts).items
  IN IF accounts = <<>> THEN Scale \div 2
     ELSE PaymentScoreTotal(accounts, 1) \div Len(accounts)

\* sum(card.get(field, 0) for card in credit_cards), field being
\* "credit_limit" or "current_balance"
RECURSIVE CardTotal(_, _, _)
CardTotal(accounts, field, i) ==
  IF i > Len(accounts) THEN Ok(0)
  ELSE LET account == accounts[i]
           amount == Get(account[field], Num(0))
           rest == CardTotal(accounts, field, i + 1)
       IN IF account.account_type = Str("credit_card")
          THEN IF ~IsNum(amount) THEN Raise("TypeError")
               ELSE IF rest.fault THEN rest
               ELSE Ok(amount.n + rest.val)
          ELSE rest

\* credit utilization, in millionths
_calculate_credit_utilization(bureau) ==
  LET accounts == GetList(bureau.accounts).items
      total_limit == CardTotal(accounts, "credit_limit", 1)
      total_balance == CardTotal(accounts, "current_balance", 1)
  IN IF total_limit.fault THEN total_limit
     ELSE IF total_balance.fault THEN total_balance
     ELSE IF total_limit.val > 0
          THEN Ok(MulDiv(total_balance.val, Scale, total_limit.val))
          ELSE Ok(0)

_assess_credit_profile(app, bureau) ==
  LET credit_score == Get(bureau.credit_score, Num(0))
      category ==
        IF credit_score.n >= 750 THEN "EXCELLENT"
        ELSE IF credit_score.n >= 700 THEN "GOOD"
        ELSE IF credit_score.n >= 650 THEN "FAIR"
        ELSE "POOR"
      credit_utilization == _calculate_credit_utilization(bureau)
  IN IF ~IsNum(credit_score) THEN Raise("TypeError")
     ELSE IF credit_utilization.fault THEN credit_utilization
     ELSE Ok([category |-> category,
              credit_score |-> credit_score.n,
              account_mix_score |-> _assess_account_mix(bureau),
              payment_history_score |-> _assess_payment_history(bureau),
              credit_utilization |-> credit_utilization.val])

\* variant: base_factor + adjustments returned without max(0.7, min(1.2, ...))
\* variant: a payment history score below 0.5 adds 0.05
_determine_risk_scale_by_history(credit_assessment, app) ==
  LET base_factor == RISK_SCALE_FACTORS(credit_assessment.category)
      utilization == credit_assessment.credit_utilization
      employment == Get(app.employment_type, Str("private_domestic"))
      adjustments ==
        (IF utilization > 800000 THEN 10 ELSE IF utilization < 300000 THEN 0 - 5 ELSE 0)
        + (IF employment = Str("government") THEN 0 - 5
           ELSE IF employment \in {Str("self_employed"), Str("business")} THEN 5
           ELSE 0)
        + (IF credit_assessment.payment_history_score < Scale \div 2 THEN 5 ELSE 0)
  IN Max2(70, Min2(120, base_factor + adjustments))

_determine_risk_scale_unclamped(credit_assessment, app) ==
  LET base_factor == RISK_SCALE_FACTORS(credit_assessment.category)
      utilization == credit_assessment.credit_utilization
      employment == Get(app.employment_type, Str("private_domestic"))
      adjustments ==
        (IF utilization > 800000 THEN 10 ELSE IF utilization < 300000 THEN 0 - 5 ELSE 0)
        + (IF employment = Str("government") THEN 0 - 5
           ELSE IF employment \in {Str("self_employed"), Str("business")} THEN 5
           ELSE 0)
  IN base_factor + adjustments

\* risk scale factor, in hundredths
_determine_risk_scale(credit_assessment, app) ==
  LET base_factor == RISK_SCALE_FACTORS(credit_assessment.category)
      utilization == credit_assessment.credit_utilization
      employment == Get(app.employment_type, Str("private_domestic"))
      adjustments ==
        (IF utilization > 800000 THEN 10 ELSE IF utilization < 300000 THEN 0 - 5 ELSE 0)
        + (IF employment = Str("government") THEN 0 - 5
           ELSE IF employment \in {Str("self_employed"), Str("business")} THEN 5
           ELSE 0)
  IN Max2(70, Min2(120, base_factor + adjustments))

\* existing_emis of _calculate_loan_terms: every active account
RECURSIVE ExistingEmis(_, _)
ExistingEmis(accounts, i) ==
  IF i > Len(accounts) THEN Ok(0)
  ELSE LET account == accounts[i]
           emi == Get(account.emi_amount, Num(0))
           rest == ExistingEmis(accounts, i + 1)
       IN IF account.status = Str("active")
          THEN IF ~IsNum(emi) THEN Raise("TypeError")
               ELSE IF rest.fault THEN rest
               ELSE Ok(emi.n + rest.val)
          ELSE rest

\* available_emi * ((1 + r)**n - 1) / (r * (1 + r)**n), in rupees
\* variant: the number of instalments is the magnitude of the tenure
MaxAmountByEmiAbs(available_emi, monthly_rate, tenure) ==
  LET growth == Pow(Scale + monthly_rate, Abs(tenure))
  IN MulDiv(MulDiv(available_emi, growth - Scale, monthly_rate), Scale, growth)

MaxAmountByEmi(available_emi, monthly_rate, tenure) ==
  LET growth == Pow(Scale + monthly_rate, tenure)
  IN MulDiv(MulDiv(available_emi, growth - Scale, monthly_rate), Scale, growth)

\* max_amount_by_emi of _calculate_loan_terms, in rupees: the principal that
\* the EMI left under MAX_FOIR repays at the risk-adjusted rate
MaxPrincipal(app, bureau, risk_scale) ==
  LET adjusted_income == _calculate_adjusted_income(app).val
      preferred_tenure == Get(app.preferred_tenure, Num(24))
      max_affordable_emi == MulDiv(adjusted_income, MAX_FOIR, Scale)
      existing_emis == ExistingEmis(GetList(bureau.accounts).items, 1)
      available_emi == Max2(0, max_affordable_emi - existing_emis.val)
      base_rate == BASE_INTEREST_RATES(preferred_tenure)
      adjusted_rate == (base_rate * risk_scale) \div 100
      monthly_rate == MonthlyRate(adjusted_rate)
  IN IF existing_emis.fault THEN existing_emis
     ELSE Ok(MaxAmountByEmi(available_emi, monthly_rate, preferred_tenure.n))

\* variant: the policy ceiling MAX_LOAN_AMOUNT left out of the min
ApprovedAmountUncapped(requested_amount, max_amount_by_emi) ==
  LET smallest == Min2(requested_amount, max_amount_by_emi)
  IN IF smallest >= MIN_LOAN_AMOUNT THEN Max2(smallest, MIN_LOAN_AMOUNT) ELSE 0

\* approved_amount = min(requested_amount, max_amount_by_emi, MAX_LOAN_AMOUNT),
\* then max(approved_amount, MIN_LOAN_AMOUNT) if it reaches the minimum, else 0
ApprovedAmount(requested_amount, max_amount_by_emi) ==
  LET smallest == Min2(requested_amount, Min2(max_amount_by_emi, MAX_LOAN_AMOUNT))
  IN IF smallest >= MIN_LOAN_AMOUNT THEN Max2(smallest, MIN_LOAN_AMOUNT) ELSE 0

\* variant: only a negative amount is refused
BelowZero(approved_amount) == approved_amount < 0

\* if approved_amount < self.MIN_LOAN_AMOUNT: raise ValueError
BelowMinimum(approved_amount) == approved_amount < MIN_LOAN_AMOUNT

\* variant: the condition is appended when approved_amount <= requested_amount
_calculate_loan_terms_reduced_or_equal(app, bureau, foir, risk_scale, credit_assessment) ==
  LET requested_amount == Get(app.requested_amount, Num(0)).n
      preferred_tenure == Get(app.preferred_tenure, Num(24))
      base_rate == BASE_INTEREST_RATES(preferred_tenure)
      adjusted_rate == (base_rate * risk_scale) \div 100
      max_amount_by_emi == MaxPrincipal(app, bureau, risk_scale)
      approved_amount == ApprovedAmount(requested_amount, max_amount_by_emi.val)
  IN IF max_amount_by_emi.fault THEN max_amount_by_emi
     ELSE IF BelowMinimum(approved_amount) THEN Raise("ValueError")
     ELSE Ok([amount |-> approved_amount,
              interest_rate |-> adjusted_rate,
              tenure |-> preferred_tenure.n,
              conditions |->
                IF approved_amount <= requested_amount
                THEN <<Reason("amount_reduced", approved_amount, requested_amount, "")>>
                ELSE <<>>])

_calculate_loan_terms(app, bureau, foir, risk_scale, credit_assessment) ==
  LET requested_amount == Get(app.requested_amount, Num(0)).n
      preferred_tenure == Get(app.preferred_tenure, Num(24))
      base_rate == BASE_INTEREST_RATES(preferred_tenure)
      adjusted_rate == (base_rate * risk_scale) \div 100
      max_amount_by_emi == MaxPrincipal(app, bureau, risk_scale)
      approved_amount == ApprovedAmount(requested_amount, max_amount_by_emi.val)
  IN IF max_amount_by_emi.fault THEN max_amount_by_emi
     ELSE IF BelowMinimum(approved_amount) THEN Raise("ValueError")
     ELSE Ok([amount |-> approved_amount,
              interest_rate |-> adjusted_rate,
              tenure |-> preferred_tenure.n,
              conditions |->
                IF approved_amount < requested_amount
                THEN <<Reason("amount_reduced", approved_amount, requested_amount, "")>>
                ELSE <<>>])

(***************************************************************************)
(* Results                                                                 *)
(***************************************************************************)
\* the dataclass PolicyResult; a field left at its default is None
PolicyResult(decision, approved_amount, interest_rate, tenure_months, conditions, reasons, foir, risk_scale_factor) ==
  [decision |-> decision, approved_amount |-> approved_amount,
   interest_rate |-> interest_rate, tenure_months |-> tenure_months,
   conditions |-> conditions, reasons |-> reasons, foir |-> foir,
   risk_scale_factor |-> risk_scale_factor]

\* no result yet: the call has not returned
NoResult == PolicyResult("", NoneV, NoneV, NoneV, NoneList, NoneList, NoneV, NoneV)

\* PolicyResult(decision="REJECTED", reasons=hard_reject_result)
HardRejected(reasons) ==
  PolicyResult("REJECTED", NoneV, NoneV, NoneV, NoneList, List(reasons), NoneV, NoneV)

\* variant: the FOIR rejection built without foir=foir_result
FoirRejectedBare(foir_result) ==
  PolicyResult("REJECTED", NoneV, NoneV, NoneV, NoneList,
               List(<<Reason("foir_exceeds", foir_result, MAX_FOIR, "")>>),
               NoneV, NoneV)

\* PolicyResult(decision="REJECTED", foir=foir_result, reasons=[...])
FoirRejected(foir_result) ==
  PolicyResult("REJECTED", NoneV, NoneV, NoneV, NoneList,
               List(<<Reason("foir_exceeds", foir_result, MAX_FOIR, "")>>),
               Num(foir_result), NoneV)

\* variant: the approval built without tenure_months=loan_terms["tenure"]
ApprovedNoTenure(loan_terms, foir_result, risk) ==
  PolicyResult("APPROVED", Num(loan_terms.amount), Num(loan_terms.interest_rate),
               NoneV, List(loan_terms.conditions), NoneList,
               Num(foir_result), Num(risk))

\* PolicyResult(decision="APPROVED", ...)
Approved(loan_terms, foir_result, risk) ==
  PolicyResult("APPROVED", Num(loan_terms.amount), Num(loan_terms.interest_rate),
               Num(loan_terms.tenure), List(loan_terms.conditions), NoneList,
               Num(foir_result), Num(risk))

\* variant: the except clause reports a rejection
PolicyErrorRejects(e) ==
  PolicyResult("REJECTED", NoneV, NoneV, NoneV, NoneList,
               List(<<Reason("Policy evaluation error", 0, 0, e)>>), NoneV, NoneV)

\* the except clause of evaluate_application
PolicyError(e) ==
  PolicyResult("MANUAL_REVIEW", NoneV, NoneV, NoneV, NoneList,
               List(<<Reason("Policy evaluation error", 0, 0, e)>>), NoneV, NoneV)

\* variant: the except clause of _apply_waterfall_policy names no reason
WaterfallErrorNoReason(e) ==
  PolicyResult("MANUAL_REVIEW", NoneV, NoneV, NoneV, NoneList, List(<<>>), NoneV, NoneV)

\* the except clause of _apply_waterfall_policy
WaterfallError(e) ==
  PolicyResult("MANUAL_REVIEW", NoneV, NoneV, NoneV, NoneList,
               List(<<Reason("Waterfall evaluation error", 0, 0, e)>>), NoneV, NoneV)

\* variant: except ValueError
CaughtByExceptValueError(e) == e = "ValueError"

\* except Exception: the exception types it catches
CaughtByExceptException(e) ==
  e \in {"TypeError", "AttributeError", "ZeroDivisionError", "ValueError"}

\* variant: >= in place of >
ReachesMaxFoir(foir_result) == foir_result >= MAX_FOIR

\* if foir_result > self.MAX_FOIR
ExceedsMaxFoir(foir_result) == foir_result > MAX_FOIR

(***************************************************************************)
(* Inputs: the records a caller can pass.  Every input is the clean        *)
(* applicant of the specification's Scenario B with at most two of its     *)
(* fields replaced, by a boundary value, a failing value, a malformed      *)
(* value (absent key, None, a string that is no number) or a list.         *)
(***************************************************************************)
MaxAccounts == 2
MaxEnquiries == 6
MaxSources == 1
MaxDay == 1
MaxEvaluations == 2

\* all sequences over S of length at most n
SeqUpTo(S, n) == UNION {[1..k -> S] : k \in 0..n}

Account(account_type, status, emi_amount, last_payment_date, credit_limit, current_balance, payment_history) ==
  [account_type |-> account_type, status |-> status, emi_amount |-> emi_amount,
   last_payment_date |-> last_payment_date, credit_limit |-> credit_limit,
   current_balance |-> current_balance, payment_history |-> payment_history]

AccountValues ==
  { Account(Str("loan"), Str("active"), Num(31350), Date(0 - 10), Missing, Missing,
            <<"0", "0">>),
    Account(Str("mortgage"), Str("active"), Num(30000), Date(0 - 10), Missing, Missing,
            <<"0", "1">>),
    Account(Str("credit_card"), Str("active"), Num(2000), Date(0 - 10), Num(100000),
            Num(90000), <<>>),
    Account(Str("loan"), Str("default"), Num(0), Date(0 - 729), Missing, Missing,
            <<"X">>),
    Account(Str("loan"), Str("settled"), Num(0), Date(0 - 730), Missing, Missing,
            <<"0">>),
    Account(Str("credit_card"), Str("write_off"), Num(0), Str("31/12/2023"),
            Num(50000), Num(10000), <<>>),
    Account(Str("loan"), Str("default"), Missing, Missing, Missing, Missing, <<>>),
    Account(Str("loan"), Str("settled"), Num(0), Str(""), Missing, Missing, <<"1">>),
    Account(Str("loan"), Str("active"), Str("n/a"), Missing, Missing, Missing, <<>>),
    Account(Str("loan"), Str("active"), Num(0 - 30000), Date(0 - 10), Missing, Missing,
            <<"0">>) }

AccountsValues ==
  {NoneList, MissingList} \cup {List(a) : a \in SeqUpTo(AccountValues, MaxAccounts)}

\* enquiries: n enquiries of one date
EnquiryValues == {Date(0 - 89), Date(0 - 90), Str("yesterday"), Missing}
EnquiriesValues ==
  {NoneList, MissingList}
  \cup {List([i \in 1..n |-> [date |-> d]]) : n \in 0..MaxEnquiries, d \in EnquiryValues}
  \cup {List([i \in 1..n |-> [date |-> IF i = n THEN Missing ELSE Date(0 - 89)]]) :
          n \in 1..MaxEnquiries}

PlatformData(debt_velocity_12m) == [t |-> "dict", debt_velocity_12m |-> debt_velocity_12m]
PlatformValues ==
  { [t |-> "none", debt_velocity_12m |-> Missing],
    [t |-> "missing", debt_velocity_12m |-> Missing] }
  \cup {PlatformData(v) : v \in {Missing, NoneV, Num(200), Num(250)}}

SourceValues ==
  { [amount |-> Num(50000), type |-> Str("salary")],
    [amount |-> Num(40000), type |-> Str("rental")],
    [amount |-> Num(0), type |-> Str("business")],
    [amount |-> Num(0 - 1000), type |-> Str("rental")],
    [amount |-> Str("n/a"), type |-> Missing] }
SourcesValues ==
  {NoneList, List(<<>>),
   List(<<[amount |-> Num(50000), type |-> Str("salary")],
          [amount |-> Num(40000), type |-> Str("rental")]>>),
   List(<<[amount |-> Num(30000), type |-> Str("pension")],
          [amount |-> Num(20000), type |-> Str("gift")],
          [amount |-> Num(10000), type |-> Missing]>>)}
  \cup {List(x) : x \in SeqUpTo(SourceValues, MaxSources) \ {<<>>}}

IncomeValues ==
  {Missing, NoneV, Str("n/a"), Num(20000), Num(25000), Num(100000), Num(250000)}
AgeValues == {Missing, Str("n/a"), Num(20), Num(21), Num(65), Num(66)}
EmploymentTypeValues ==
  {Missing, Str("government"), Str("self_employed"), Str("business"), Str("contract")}
EmploymentYearsValues == {Missing, Str("n/a"), Num(1), Num(2)}
RequestedAmountValues ==
  {Missing, Str("n/a"), Num(40000), Num(50000), Num(2000000), Num(2500000)}
TenureValues == {Missing, Str("n/a"), Num(0), Num(0 - 12), Num(18), Num(60)}
CreditScoreValues == {Missing, Str("n/a"), Num(600), Num(649), Num(650), Num(700)}

\* Scenario B of the specification
ScenarioApplication ==
  [t |-> "dict", monthly_income |-> Num(60000), age |-> Num(30),
   employment_type |-> Str("private_mnc"), employment_years |-> Num(5),
   requested_amount |-> Num(500000), preferred_tenure |-> Num(24),
   income_sources |-> MissingList]

ScenarioBureau ==
  [t |-> "dict", credit_score |-> Num(780), accounts |-> List(<<>>),
   enquiries |-> List(<<>>), platform_data |-> PlatformData(Num(50))]

\* the records that differ from a in at most one field
ApplicationsNear(a) ==
  {a, [a EXCEPT !.t = "none"]}
  \cup {[a EXCEPT !.monthly_income = v] : v \in IncomeValues}
  \cup {[a EXCEPT !.age = v] : v \in AgeValues}
  \cup {[a EXCEPT !.employment_type = v] : v \in EmploymentTypeValues}
  \cup {[a EXCEPT !.employment_years = v] : v \in EmploymentYearsValues}
  \cup {[a EXCEPT !.requested_amount = v] : v \in RequestedAmountValues}
  \cup {[a EXCEPT !.preferred_tenure = v] : v \in TenureValues}
  \cup {[a EXCEPT !.income_sources = v] : v \in SourcesValues}

BureausNear(b) ==
  {b, [b EXCEPT !.t = "none"]}
  \cup {[b EXCEPT !.credit_score = v] : v \in CreditScoreValues}
  \cup {[b EXCEPT !.accounts = v] : v \in AccountsValues}
  \cup {[b EXCEPT !.enquiries = v] : v \in EnquiriesValues}
  \cup {[b EXCEPT !.platform_data = v] : v \in PlatformValues}

\* the values that replace field f of a record of Scenario B
ApplicationFields ==
  <<"t", "monthly_income", "age", "employment_type", "employment_years",
    "requested_amount", "preferred_tenure", "income_sources">>
ApplicationFieldValues(f) ==
  CASE f = "t" -> {"none"}
    [] f = "monthly_income" -> IncomeValues
    [] f = "age" -> AgeValues
    [] f = "employment_type" -> EmploymentTypeValues
    [] f = "employment_years" -> EmploymentYearsValues
    [] f = "requested_amount" -> RequestedAmountValues
    [] f = "preferred_tenure" -> TenureValues
    [] f = "income_sources" -> SourcesValues

BureauFields == <<"t", "credit_score", "accounts", "enquiries", "platform_data">>
BureauFieldValues(f) ==
  CASE f = "t" -> {"none"}
    [] f = "credit_score" -> CreditScoreValues
    [] f = "accounts" -> AccountsValues
    [] f = "enquiries" -> EnquiriesValues
    [] f = "platform_data" -> PlatformValues

\* the pairs of distinct positions in a list of n fields
FieldPairs(n) == {p \in (1..n) \X (1..n) : p[1] < p[2]}

\* the application records that differ from Scenario B in at most two
\* fields: UNION {ApplicationsNear(a) : a \in ApplicationsNear(ScenarioApplication)},
\* enumerated by the pair of fields replaced (a replacement may be the value
\* Scenario B has)
ApplicationsWithinTwo ==
  UNION {{[[ScenarioApplication EXCEPT ![ApplicationFields[p[1]]] = v]
             EXCEPT ![ApplicationFields[p[2]]] = w] :
            v \in ApplicationFieldValues(ApplicationFields[p[1]])
                    \cup {ScenarioApplication[ApplicationFields[p[1]]]},
            w \in ApplicationFieldValues(ApplicationFields[p[2]])
                    \cup {ScenarioApplication[ApplicationFields[p[2]]]}} :
         p \in FieldPairs(Len(ApplicationFields))}

\* the values field f takes when the fields in replaced are replaced
BureauFieldRange(f, replaced) ==
  IF f \in replaced THEN BureauFieldValues(f) \cup {ScenarioBureau[f]}
  ELSE {ScenarioBureau[f]}

\* the reports that differ from Scenario B in the fields in replaced at most
BureausReplacing(replaced) ==
  [t : BureauFieldRange("t", replaced),
   credit_score : BureauFieldRange("credit_score", replaced),
   accounts : BureauFieldRange("accounts", replaced),
   enquiries : BureauFieldRange("enquiries", replaced),
   platform_data : BureauFieldRange("platform_data", replaced)]

\* the bureau reports with at most two fields replaced
BureausWithinTwo ==
  UNION {BureausReplacing({BureauFields[p[1]], BureauFields[p[2]]}) :
           p \in FieldPairs(Len(BureauFields))}

\* <<application_data, bureau_data>> pairs with at most two fields replaced
Inputs ==
  (ApplicationsWithinTwo \X {ScenarioBureau})
  \cup (ApplicationsNear(ScenarioApplication) \X BureausNear(ScenarioBureau))
  \cup ({ScenarioApplication} \X BureausWithinTwo)

\* pairs with at most one field replaced
InputsNear ==
  (ApplicationsNear(ScenarioApplication) \X {ScenarioBureau})
  \cup ({ScenarioApplication} \X BureausNear(ScenarioBureau))

(***************************************************************************)
(* State                                                                   *)
(***************************************************************************)
VARIABLES
  application_data,   \* the caller's application record
  bureau_data,        \* the caller's bureau report
  now,                \* the day datetime.now() reads
  pc,                 \* the stage the evaluation is about to run
  foir_result,        \* locals of _apply_waterfall_policy, None until assigned
  credit_assessment,
  risk_scale,
  result,             \* the PolicyResult returned, NoResult until then
  trace,              \* the stages this evaluation has run, in order
  evaluation,         \* the number of the evaluation of these records
  prev,               \* result and clock of the previous evaluation
  engine,             \* the attributes of the shared PolicyEngine instance
  calls               \* the evaluations in flight on the shared instance

vars == <<application_data, bureau_data, now, pc, foir_result, credit_assessment,
          risk_scale, result, trace, evaluation, prev, engine, calls>>

\* self.waterfall_checks, as __init__ lists them; no method reads the list
waterfall_checks ==
  <<"_calculate_foir", "_assess_credit_profile", "_determine_risk_scale",
    "_calculate_final_amount">>

\* the instance attributes __init__ assigns
PolicyEngine ==
  [hard_reject_rules |-> hard_reject_rules, waterfall_checks |-> waterfall_checks]

NoAssessment ==
  [category |-> "", credit_score |-> 0, account_mix_score |-> 0,
   payment_history_score |-> 0, credit_utilization |-> 0]

Fresh ==
  /\ now = 0
  /\ pc = "START"
  /\ foir_result = NoneV
  /\ credit_assessment = NoAssessment
  /\ risk_scale = NoneV
  /\ result = NoResult
  /\ trace = <<>>
  /\ evaluation = 1
  /\ prev = [result |-> NoResult, clock |-> 0]
  /\ engine = PolicyEngine
  /\ calls = <<>>

Init ==
  /\ \E input \in Inputs :
       application_data = input[1] /\ bureau_data = input[2]
  /\ Fresh

InitNear ==
  /\ \E input \in InputsNear :
       application_data = input[1] /\ bureau_data = input[2]
  /\ Fresh

(***************************************************************************)
(* Steps of evaluate_application                                           *)
(***************************************************************************)
\* return r from evaluate_application
Return(r) ==
  /\ pc' = "DONE"
  /\ result' = r

\* an exception e raised under the try of evaluate_application (and not under
\* the one of _apply_waterfall_policy): caught and wrapped, else it
\* propagates to the caller
PolicyFault(e) ==
  IF CaughtByExceptException(e)
  THEN Return(PolicyError(e))
  ELSE pc' = "RAISED" /\ UNCHANGED result

\* an exception e raised under the try of _apply_waterfall_policy
WaterfallFault(e) ==
  IF CaughtByExceptException(e)
  THEN Return(WaterfallError(e))
  ELSE PolicyFault(e)

\* variant: the call goes straight to the waterfall, the chain left out
StartSkipsChain ==
  /\ pc = "START"
  /\ trace' = Append(trace, "START")
  /\ IF application_data.t = "none"
     THEN PolicyFault("AttributeError")
     ELSE pc' = "FOIR_CHECK" /\ UNCHANGED result
  /\ UNCHANGED <<engine, calls, application_data, bureau_data, now, foir_result,
                 credit_assessment, risk_scale, evaluation, prev>>

\* the call and its first statement, logger.info(... application_data.get ...)
Start ==
  /\ pc = "START"
  /\ trace' = Append(trace, "START")
  /\ IF application_data.t = "none"
     THEN PolicyFault("AttributeError")
     ELSE pc' = "HARD_REJECT_CHECK" /\ UNCHANGED result
  /\ UNCHANGED <<engine, calls, application_data, bureau_data, now, foir_result, credit_assessment,
                 risk_scale, evaluation, prev>>

\* variant: the reason list outlives the call (kept on the shared engine), so
\* an evaluation starts from the reasons of the one before
HardRejectCheckShared ==
  /\ pc = "HARD_REJECT_CHECK"
  /\ trace' = Append(trace, "HARD_REJECT_CHECK")
  /\ LET hard_reject_result ==
           RunRules(1, IF prev.result.decision = "REJECTED"
                       THEN prev.result.reasons.items ELSE <<>>,
                    application_data, bureau_data, now)
     IN IF hard_reject_result.fault THEN PolicyFault(hard_reject_result.exc)
        ELSE IF hard_reject_result.val # <<>>
             THEN Return(HardRejected(hard_reject_result.val))
             ELSE pc' = "FOIR_CHECK" /\ UNCHANGED result
  /\ UNCHANGED <<engine, calls, application_data, bureau_data, now, foir_result, credit_assessment,
                 risk_scale, evaluation, prev>>

\* variant: a non-empty reason list fills the result without returning, and
\* the waterfall runs all the same
HardRejectCheckNoReturn ==
  /\ pc = "HARD_REJECT_CHECK"
  /\ trace' = Append(trace, "HARD_REJECT_CHECK")
  /\ LET hard_reject_result == _apply_hard_reject_rules(application_data, bureau_data, now)
     IN IF hard_reject_result.fault THEN PolicyFault(hard_reject_result.exc)
        ELSE /\ pc' = "FOIR_CHECK"
             /\ result' = IF hard_reject_result.val # <<>>
                           THEN HardRejected(hard_reject_result.val) ELSE result
  /\ UNCHANGED <<engine, calls, application_data, bureau_data, now, foir_result,
                 credit_assessment, risk_scale, evaluation, prev>>

\* step 1: the hard reject chain and the early return
HardRejectCheck ==
  /\ pc = "HARD_REJECT_CHECK"
  /\ trace' = Append(trace, "HARD_REJECT_CHECK")
  /\ LET hard_reject_result == _apply_hard_reject_rules(application_data, bureau_data, now)
     IN IF hard_reject_result.fault THEN PolicyFault(hard_reject_result.exc)
        ELSE IF hard_reject_result.val # <<>>
             THEN Return(HardRejected(hard_reject_result.val))
             ELSE pc' = "FOIR_CHECK" /\ UNCHANGED result
  /\ UNCHANGED <<engine, calls, application_data, bureau_data, now, foir_result, credit_assessment,
                 risk_scale, evaluation, prev>>

\* step 2, _apply_waterfall_policy: FOIR and its gate
FoirCheck ==
  /\ pc = "FOIR_CHECK"
  /\ trace' = Append(trace, "FOIR_CHECK")
  /\ LET foir == _calculate_foir(application_data, bureau_data)
     IN IF foir.fault
        THEN WaterfallFault(foir.exc) /\ UNCHANGED foir_result
        ELSE /\ foir_result' = Num(foir.val)
             /\ IF ExceedsMaxFoir(foir.val)
                THEN Return(FoirRejected(foir.val))
                ELSE pc' = "CREDIT_ASSESS" /\ UNCHANGED result
  /\ UNCHANGED <<engine, calls, application_data, bureau_data, now, credit_assessment, risk_scale,
                 evaluation, prev>>

CreditAssess ==
  /\ pc = "CREDIT_ASSESS"
  /\ trace' = Append(trace, "CREDIT_ASSESS")
  /\ LET assessment == _assess_credit_profile(application_data, bureau_data)
     IN IF assessment.fault
        THEN WaterfallFault(assessment.exc) /\ UNCHANGED credit_assessment
        ELSE /\ credit_assessment' = assessment.val
             /\ pc' = "RISK_SCALE"
             /\ UNCHANGED result
  /\ UNCHANGED <<engine, calls, application_data, bureau_data, now, foir_result, risk_scale,
                 evaluation, prev>>

RiskScale ==
  /\ pc = "RISK_SCALE"
  /\ trace' = Append(trace, "RISK_SCALE")
  /\ risk_scale' = Num(_determine_risk_scale(credit_assessment, application_data))
  /\ pc' = "TERM_SOLVE"
  /\ UNCHANGED <<engine, calls, application_data, bureau_data, now, foir_result, credit_assessment,
                 result, evaluation, prev>>

TermSolve ==
  /\ pc = "TERM_SOLVE"
  /\ trace' = Append(trace, "TERM_SOLVE")
  /\ LET loan_terms == _calculate_loan_terms(application_data, bureau_data,
                                             foir_result.n, risk_scale.n,
                                             credit_assessment)
     IN IF loan_terms.fault
        THEN WaterfallFault(loan_terms.exc)
        ELSE Return(Approved(loan_terms.val, foir_result.n, risk_scale.n))
  /\ UNCHANGED <<engine, calls, application_data, bureau_data, now, foir_result, credit_assessment,
                 risk_scale, evaluation, prev>>

\* the caller evaluates the same two records again
Reevaluate ==
  /\ pc = "DONE"
  /\ evaluation < MaxEvaluations
  /\ prev' = [result |-> result, clock |-> now]
  /\ evaluation' = evaluation + 1
  /\ pc' = "START"
  /\ foir_result' = NoneV
  /\ credit_assessment' = NoAssessment
  /\ risk_scale' = NoneV
  /\ result' = NoResult
  /\ trace' = <<>>
  /\ UNCHANGED <<engine, calls, application_data, bureau_data, now>>

\* a day passes between two evaluations
Tick ==
  /\ pc = "START"
  /\ evaluation > 1
  /\ now < MaxDay
  /\ now' = now + 1
  /\ UNCHANGED <<engine, calls, application_data, bureau_data, pc, foir_result, credit_assessment,
                 risk_scale, result, trace, evaluation, prev>>

Next ==
  \/ Start
  \/ HardRejectCheck
  \/ FoirCheck
  \/ CreditAssess
  \/ RiskScale
  \/ TermSolve

Spec == Init /\ [][Next]_vars

NextAgain == Next \/ Reevaluate \/ Tick

SpecAgain == InitNear /\ [][NextAgain]_vars

(***************************************************************************)
(* Facts about the two input records, stated on the records themselves     *)
(***************************************************************************)
Done == pc = "DONE"

Range(f) == {f[i] : i \in DOMAIN f}

\* a value that is present and is no number
NonNumeric(x) == x.t \in {"str", "none"}

AppIncome == Get(application_data.monthly_income, Num(0))
BureauScore == Get(bureau_data.credit_score, Num(0))
AppAge == Get(application_data.age, Num(0))
AppYears == Get(application_data.employment_years, Num(0))
AppRequested == Get(application_data.requested_amount, Num(0))
AppTenure == Get(application_data.preferred_tenure, Num(24))
BureauVelocity == Get(bureau_data.platform_data.debt_velocity_12m, Num(0))
BureauAccounts == GetList(bureau_data.accounts)
BureauEnquiries == GetList(bureau_data.enquiries)

\* no hard reject rule raises: both records are dicts, the numbers the rules
\* compare are numbers (or absent) and no container is None
NoRuleRaises ==
  /\ application_data.t = "dict"
  /\ bureau_data.t = "dict"
  /\ IsNum(AppIncome) /\ IsNum(BureauScore) /\ IsNum(AppAge)
  /\ IsNum(AppYears)
  /\ BureauAccounts.t = "list" /\ BureauEnquiries.t = "list"
  /\ bureau_data.platform_data.t # "none"
  /\ (bureau_data.platform_data.t = "dict" => IsNum(BureauVelocity))

IncomeGateFails == AppIncome.n < 25000
ScoreGateFails == BureauScore.n < 650
AgeGateFails == AppAge.n < 21 \/ AppAge.n > 65
EmploymentGateFails ==
  AppYears.n < min_employment(Get(application_data.employment_type, Str("")))
DefaultGateFails ==
  \E i \in 1..Len(BureauAccounts.items) :
    LET a == BureauAccounts.items[i]
    IN /\ a.status \in {Str("default"), Str("write_off"), Str("settled")}
       /\ \/ a.last_payment_date.t = "date" /\ a.last_payment_date.n > now - 730
          \/ a.last_payment_date.t = "str" /\ a.last_payment_date.s # ""
          \/ a.last_payment_date.t = "num" /\ a.last_payment_date.n # 0
EnquiryGateFails ==
  Cardinality({i \in 1..Len(BureauEnquiries.items) :
                 /\ BureauEnquiries.items[i].date.t = "date"
                 /\ BureauEnquiries.items[i].date.n > now - 90}) > 5
VelocityGateFails ==
  bureau_data.platform_data.t = "dict" /\ BureauVelocity.n > 200

SomeGateFails ==
  \/ IncomeGateFails \/ ScoreGateFails \/ AgeGateFails \/ EmploymentGateFails
  \/ DefaultGateFails \/ EnquiryGateFails \/ VelocityGateFails

\* the shape of the Waterfall / Policy evaluation error results
IsErrorResult(r, prefix) ==
  /\ r.decision = "MANUAL_REVIEW"
  /\ r.reasons.t = "list"
  /\ Len(r.reasons.items) = 1
  /\ r.reasons.items[1].kind = prefix

(***************************************************************************)
(* Claims                                                                  *)
(***************************************************************************)

\* C1: whatever the two inputs are (absent keys, non-numeric values, None for
\* a dict or a list, zero tenure), the call returns a PolicyResult whose
\* decision is APPROVED, REJECTED or MANUAL_REVIEW; no exception reaches the
\* caller.
C1_AlwaysReturnsDecision ==
  /\ pc # "RAISED"
  /\ Done => result.decision \in {"APPROVED", "REJECTED", "MANUAL_REVIEW"}

C1_Witness ==
  /\ Done
  /\ bureau_data.t = "none"
  /\ application_data.preferred_tenure = Num(0)
  /\ result.decision = "MANUAL_REVIEW"

C4_FoirGate ==
  Done /\ foir_result.t = "num"
  => /\ foir_result.n > 550000
          => result = PolicyResult("REJECTED", NoneV, NoneV, NoneV, NoneList,
                        List(<<Reason("foir_exceeds", foir_result.n, 550000, "")>>),
                        foir_result, NoneV)
     /\ foir_result.n = 550000 => result.decision # "REJECTED"
     /\ result.decision = "APPROVED" => result.foir.n <= 550000

C4_Witness ==
  /\ Done
  /\ foir_result.t = "num" /\ foir_result.n > 550000
  /\ result.decision = "REJECTED"
  /\ result.foir = foir_result

\* C5: in every APPROVED result
\* MIN_LOAN_AMOUNT <= approved_amount <= min(AppRequested, MAX_LOAN_AMOUNT).
C5_ApprovedAmountBounds ==
  Done /\ result.decision = "APPROVED"
  => /\ result.approved_amount.t = "num"
     /\ 50000 <= result.approved_amount.n
     /\ result.approved_amount.n <= Min2(AppRequested.n, 2000000)

C5_Witness ==
  /\ Done
  /\ result.decision = "APPROVED"
  /\ AppRequested.n > 2000000
  /\ result.approved_amount.n = 2000000

\* every field has the type the data model gives it, or is absent
WellFormed ==
  /\ NoRuleRaises
  /\ IsNum(AppRequested) /\ IsNum(AppTenure)
  /\ application_data.income_sources.t # "none"
  /\ \A i \in 1..Len(application_data.income_sources.items) :
       IsNum(Get(application_data.income_sources.items[i].amount, Num(0)))
  /\ \A i \in 1..Len(BureauAccounts.items) :
       /\ IsNum(Get(BureauAccounts.items[i].emi_amount, Num(0)))
       /\ IsNum(Get(BureauAccounts.items[i].credit_limit, Num(0)))
       /\ IsNum(Get(BureauAccounts.items[i].current_balance, Num(0)))

FoirWithinCeiling ==
  LET f == _calculate_foir(application_data, bureau_data)
  IN ~f.fault /\ f.val <= 550000

\* max_principal: the principal the Loan-Term Solver solves for these inputs
SolvedPrincipal ==
  LET assessment == _assess_credit_profile(application_data, bureau_data)
  IN IF assessment.fault THEN assessment
     ELSE MaxPrincipal(application_data, bureau_data,
                       _determine_risk_scale(assessment.val, application_data))

PrincipalReachesFloor ==
  /\ ~SolvedPrincipal.fault
  /\ Min2(AppRequested.n, Min2(SolvedPrincipal.val, 2000000)) >= 50000

\* C6: for a well-formed input the decision is APPROVED exactly when every
\* hard reject gate passes, the FOIR is at most 0.55 and
\* min(requested_amount, max_principal, MAX_LOAN_AMOUNT) >= MIN_LOAN_AMOUNT;
\* Scenario B is APPROVED with approved_amount <= requested_amount.
C6_ApprovedIff ==
  Done /\ WellFormed
  => /\ result.decision = "APPROVED"
          <=> (~SomeGateFails /\ FoirWithinCeiling /\ PrincipalReachesFloor)
     /\ (application_data = ScenarioApplication /\ bureau_data = ScenarioBureau)
          => /\ result.decision = "APPROVED"
             /\ result.approved_amount.n <= 500000

C6_Witness ==
  /\ Done
  /\ application_data = ScenarioApplication
  /\ bureau_data = ScenarioBureau
  /\ result.decision = "APPROVED"
  /\ result.approved_amount = Num(500000)

C8_BelowFloorIsManualReview ==
  /\ Done
  /\ foir_result.t = "num" /\ foir_result.n <= 550000
  /\ ~SolvedPrincipal.fault
  /\ Min2(AppRequested.n, Min2(SolvedPrincipal.val, 2000000)) < 50000
  => /\ IsErrorResult(result, "Waterfall evaluation error")
     /\ result.reasons.items[1].subject = "ValueError"

C8_Witness ==
  /\ Done
  /\ foir_result.t = "num" /\ foir_result.n <= 550000
  /\ AppRequested.n >= 50000
  /\ ~SolvedPrincipal.fault /\ SolvedPrincipal.val < 50000
  /\ result.decision = "MANUAL_REVIEW"

\* C9 as stated: a required numeric field (monthly_income, credit_score, age,
\* employment_years, requested_amount, preferred_tenure) that is absent or
\* non-numeric gives MANUAL_REVIEW.
C9_AsStated ==
  /\ Done
  /\ application_data.t = "dict" /\ bureau_data.t = "dict"
  /\ \E x \in {application_data.monthly_income, bureau_data.credit_score,
               application_data.age, application_data.employment_years,
               application_data.requested_amount, application_data.preferred_tenure} :
       x = Missing \/ NonNumeric(x)
  => result.decision = "MANUAL_REVIEW"

\* C9 (amended): every exception raised at any stage gives MANUAL_REVIEW with
\* exactly one reason describing the fault: a present but non-numeric
\* monthly_income, credit_score, age or employment_years always does, and a
\* non-numeric requested_amount or preferred_tenure (or a zero tenure) does
\* whenever the hard reject chain has passed.  An absent field raises nothing:
\* it reads as its default, so an absent monthly_income, credit_score, age or
\* employment_years is REJECTED by its gate when no rule raises.
C9_FaultsAreManualReview ==
  Done
  => /\ (\/ application_data.t = "none" \/ bureau_data.t = "none"
         \/ NonNumeric(application_data.monthly_income)
         \/ NonNumeric(bureau_data.credit_score)
         \/ NonNumeric(application_data.age)
         \/ NonNumeric(application_data.employment_years))
          => IsErrorResult(result, "Policy evaluation error")
     /\ ("FOIR_CHECK" \in Range(trace)
         /\ (\/ NonNumeric(application_data.requested_amount)
             \/ NonNumeric(application_data.preferred_tenure)
             \/ application_data.preferred_tenure = Num(0)))
          => IsErrorResult(result, "Waterfall evaluation error")
     /\ (NoRuleRaises
         /\ Missing \in {application_data.monthly_income, bureau_data.credit_score,
                         application_data.age, application_data.employment_years})
          => result.decision = "REJECTED"

C9_Witness ==
  /\ Done
  /\ NonNumeric(application_data.age)
  /\ IsNum(AppIncome) /\ IncomeGateFails
  /\ IsErrorResult(result, "Policy evaluation error")

\* C10 as stated: every result of an input that passed the hard reject chain
\* has a populated foir, and every result of an evaluation that ran the
\* Risk-Scale Resolver has a populated risk_scale_factor, MANUAL_REVIEW
\* results included.
C10_AsStated ==
  Done
  => /\ "FOIR_CHECK" \in Range(trace) => result.foir.t = "num"
     /\ "RISK_SCALE" \in Range(trace) => result.risk_scale_factor.t = "num"

\* C10 (amended): a result carries a computed value only when the evaluation
\* returned normally after computing it: every APPROVED result carries the
\* computed foir and risk_scale_factor, the REJECTED result of the FOIR gate
\* carries the computed foir and no risk_scale_factor, and every MANUAL_REVIEW
\* result carries neither, also when a later stage faulted after they were
\* computed.
C10_CarriedValues ==
  Done
  => /\ result.decision = "APPROVED"
          => /\ result.foir = foir_result /\ foir_result.t = "num"
             /\ result.risk_scale_factor = risk_scale /\ risk_scale.t = "num"
     /\ result.decision = "REJECTED"
          => result.foir = foir_result /\ result.risk_scale_factor = NoneV
     /\ result.decision = "MANUAL_REVIEW"
          => result.foir = NoneV /\ result.risk_scale_factor = NoneV

C10_Witness ==
  /\ Done
  /\ foir_result.t = "num" /\ risk_scale.t = "num"
  /\ result.decision = "MANUAL_REVIEW"
  /\ result.foir = NoneV /\ result.risk_scale_factor = NoneV

\* C11: in every result whose decision is REJECTED or MANUAL_REVIEW the
\* reasons list is present (a list, not None) and has at least one entry.
C11_ReasonsNonEmpty ==
  Done /\ result.decision \in {"REJECTED", "MANUAL_REVIEW"}
  => result.reasons.t = "list" /\ Len(result.reasons.items) >= 1

C11_Witness ==
  /\ Done
  /\ "TERM_SOLVE" \in Range(trace)
  /\ result.decision = "MANUAL_REVIEW"
  /\ result.reasons.t = "list" /\ Len(result.reasons.items) = 1

\* C12: approved_amount, interest_rate and tenure_months are all populated in
\* every APPROVED result and all None in every REJECTED and every
\* MANUAL_REVIEW result; no result has only some of the three.
C12_TermsAllOrNone ==
  Done
  => /\ result.decision = "APPROVED"
          => /\ result.approved_amount.t = "num"
             /\ result.interest_rate.t = "num"
             /\ result.tenure_months.t = "num"
     /\ result.decision \in {"REJECTED", "MANUAL_REVIEW"}
          => /\ result.approved_amount = NoneV
             /\ result.interest_rate = NoneV
             /\ result.tenure_months = NoneV

C12_Witness ==
  /\ Done
  /\ result.decision = "APPROVED"
  /\ result.approved_amount.t = "num" /\ result.approved_amount.n < AppRequested.n
  /\ result.interest_rate.t = "num"
  /\ result.tenure_months = Num(60)

(***************************************************************************)
(* The Risk-Scale Resolver on its own: _determine_risk_scale applied to     *)
(* every band, to utilizations on both sides of its two thresholds and to   *)
(* every employment type                                                    *)
(***************************************************************************)
CategoryValues == {"EXCELLENT", "GOOD", "FAIR", "POOR"}
UtilizationValues == {0, 299999, 300000, 500000, 800000, 800001, 1500000}

\* the credit_assessment dict of a band and a utilization
Assessment(category, credit_utilization) ==
  [category |-> category,
   credit_score |-> CASE category = "EXCELLENT" -> 750 [] category = "GOOD" -> 700
                      [] category = "FAIR" -> 650 [] OTHER -> 600,
   account_mix_score |-> 60, payment_history_score |-> Scale \div 2,
   credit_utilization |-> credit_utilization]

\* the arguments of one call of _determine_risk_scale
InitRisk ==
  /\ \E category \in CategoryValues, utilization \in UtilizationValues,
        employment_type \in EmploymentTypeValues \cup {Str("private_mnc")} :
       /\ application_data = [ScenarioApplication EXCEPT !.employment_type = employment_type]
       /\ credit_assessment = Assessment(category, utilization)
  /\ bureau_data = ScenarioBureau
  /\ now = 0
  /\ pc = "RISK_SCALE"
  /\ foir_result = NoneV
  /\ risk_scale = NoneV
  /\ result = NoResult
  /\ trace = <<>>
  /\ evaluation = 1
  /\ prev = [result |-> NoResult, clock |-> 0]
  /\ engine = PolicyEngine
  /\ calls = <<>>

SpecRisk == InitRisk /\ [][RiskScale]_vars

\* C13: for every band, utilization and employment type the risk scale factor
\* that _determine_risk_scale returns, and so the risk_scale_factor of any
\* result that carries one, lies in [0.7, 1.2].
C13_RiskScaleClamped ==
  /\ risk_scale.t = "num" => 70 <= risk_scale.n /\ risk_scale.n <= 120
  /\ result.risk_scale_factor.t = "num"
       => 70 <= result.risk_scale_factor.n /\ result.risk_scale_factor.n <= 120

\* POOR (1.1) with utilization above 0.8 (+0.1) and a business applicant
\* (+0.05) sums to 1.25 and is returned as 1.2
C13_Witness ==
  /\ pc = "TERM_SOLVE"
  /\ credit_assessment.category = "POOR"
  /\ credit_assessment.credit_utilization > 800000
  /\ application_data.employment_type = Str("business")
  /\ risk_scale = Num(120)

\* the reason each gate owes for these two records, stated on the records
IncomeReasons ==
  IF IncomeGateFails THEN <<Reason("min_income", AppIncome.n, 25000, "")>> ELSE <<>>
ScoreReasons ==
  IF ScoreGateFails THEN <<Reason("credit_score", BureauScore.n, 650, "")>> ELSE <<>>
AgeReasons ==
  IF AgeGateFails THEN <<Reason("age", AppAge.n, 21, "")>> ELSE <<>>
EmploymentReasons ==
  IF EmploymentGateFails
  THEN <<Reason("employment", AppYears.n,
                min_employment(Get(application_data.employment_type, Str(""))),
                Get(application_data.employment_type, Str("")).s)>>
  ELSE <<>>

\* an account the bureau-default gate objects to
Offending(a) ==
  /\ a.status \in {Str("default"), Str("write_off"), Str("settled")}
  /\ \/ a.last_payment_date.t = "date" /\ a.last_payment_date.n > now - 730
     \/ a.last_payment_date.t = "str" /\ a.last_payment_date.s # ""
     \/ a.last_payment_date.t = "num" /\ a.last_payment_date.n # 0

\* one reason per offending account, in the order of the accounts
OffendingReasons ==
  LET offending == SelectSeq(BureauAccounts.items, Offending)
  IN [i \in 1..Len(offending) |->
        Reason(IF offending[i].last_payment_date.t = "date"
               THEN "recent_default" ELSE "default",
               0,
               IF offending[i].last_payment_date.t = "date" THEN 730 ELSE 0,
               Get(offending[i].account_type, Str("account")).s)]

RecentEnquiryCount ==
  Cardinality({i \in 1..Len(BureauEnquiries.items) :
                 /\ BureauEnquiries.items[i].date.t = "date"
                 /\ BureauEnquiries.items[i].date.n > now - 90})
EnquiryReasons ==
  IF EnquiryGateFails THEN <<Reason("enquiries", RecentEnquiryCount, 5, "")>> ELSE <<>>
VelocityReasons ==
  IF VelocityGateFails THEN <<Reason("debt_velocity", BureauVelocity.n, 200, "")>> ELSE <<>>

\* C14: the chain evaluates every gate, without short-circuit: for a
\* well-formed input in which some gates fail the REJECTED result's reasons are
\* exactly the reasons of the failing gates (one per offending account for the
\* bureau-default gate), concatenated in the order income, credit score, age,
\* employment stability, bureau defaults, enquiry velocity, debt velocity, with
\* no reason for a passing gate.
C14_AllFailingGatesReported ==
  Done /\ WellFormed /\ SomeGateFails
  => /\ result.decision = "REJECTED"
     /\ result.reasons.t = "list"
     /\ result.reasons.items =
          IncomeReasons \o ScoreReasons \o AgeReasons \o EmploymentReasons
          \o OffendingReasons \o EnquiryReasons \o VelocityReasons

C14_Witness ==
  /\ Done
  /\ WellFormed
  /\ IncomeGateFails /\ VelocityGateFails
  /\ ~ScoreGateFails /\ ~AgeGateFails /\ ~EmploymentGateFails
  /\ result.decision = "REJECTED"
  /\ Len(result.reasons.items) = 2
  /\ result.reasons.items[1].kind = "min_income"
  /\ result.reasons.items[2].kind = "debt_velocity"

\* C15: when the hard reject chain collects a non-empty reason list the
\* evaluation ends at once with REJECTED carrying exactly those reasons: the
\* stages run are START and HARD_REJECT_CHECK only, no waterfall stage (FOIR,
\* credit assessment, risk scale, term solving) has run or left a value, and
\* foir and risk_scale_factor are None in the result.
C15_RejectEndsEvaluation ==
  LET collected == _apply_hard_reject_rules(application_data, bureau_data, now)
  IN Done /\ application_data.t = "dict" /\ ~collected.fault /\ collected.val # <<>>
     => /\ result.decision = "REJECTED"
        /\ result.reasons = List(collected.val)
        /\ trace = <<"START", "HARD_REJECT_CHECK">>
        /\ foir_result = NoneV
        /\ credit_assessment = NoAssessment
        /\ risk_scale = NoneV
        /\ result.foir = NoneV /\ result.risk_scale_factor = NoneV

\* a rejected input whose zero tenure would have faulted in the FOIR stage
C15_Witness ==
  /\ Done
  /\ NoRuleRaises /\ ScoreGateFails
  /\ application_data.preferred_tenure = Num(0)
  /\ result.decision = "REJECTED"
  /\ trace = <<"START", "HARD_REJECT_CHECK">>
  /\ result.foir = NoneV

\* the stages in the order the code runs them
StageOrder ==
  <<"START", "HARD_REJECT_CHECK", "FOIR_CHECK", "CREDIT_ASSESS", "RISK_SCALE",
    "TERM_SOLVE">>

IsPrefix(s, t) == Len(s) <= Len(t) /\ \A i \in 1..Len(s) : s[i] = t[i]

\* C16: the stages run in the order START, HARD_REJECT_CHECK, FOIR_CHECK,
\* CREDIT_ASSESS, RISK_SCALE, TERM_SOLVE: the stages run so far are always an
\* initial part of that order (none before its predecessor, none twice) and
\* the next one to run is the next of the order; REJECTED is entered from the
\* hard reject check or the FOIR gate only, APPROVED after TERM_SOLVE only;
\* every step runs exactly the stage that is due; and after a terminal
\* decision no stage runs and the decision does not change.
C16_StageOrder ==
  /\ [](/\ IsPrefix(trace, StageOrder)
        /\ pc # "DONE" => pc = StageOrder[Len(trace) + 1] /\ result = NoResult
        /\ Done /\ result.decision = "REJECTED"
             => trace[Len(trace)] \in {"HARD_REJECT_CHECK", "FOIR_CHECK"}
        /\ Done /\ result.decision = "APPROVED" => trace = StageOrder
        /\ Done => result.decision \in {"REJECTED", "APPROVED", "MANUAL_REVIEW"})
  /\ [][/\ pc # "DONE" => trace' = Append(trace, pc)
        /\ pc = "DONE" => pc' = pc /\ result' = result /\ trace' = trace]_vars

C16_Witness ==
  /\ Done
  /\ result.decision = "APPROVED"
  /\ trace = StageOrder
  /\ Len(result.conditions.items) = 1

\* C17: whenever foir is populated in a result it is non-negative, whatever
\* the emi_amount values of the accounts, the requested_amount and the
\* preferred_tenure are.
C17_FoirNonNegative ==
  Done /\ result.foir.t = "num" => result.foir.n >= 0

\* the adjusted income of the application is computed and is not positive
AdjustedIncomeNotPositive ==
  LET adjusted_income == _calculate_adjusted_income(application_data)
  IN ~adjusted_income.fault /\ adjusted_income.val <= 0

\* the statements of _calculate_foir that come before the income test raise
\* nothing: the EMIs it sums, the requested amount and the tenure are numbers
\* and the tenure is not zero
FoirInputsNumeric ==
  /\ IsNum(AppRequested) /\ IsNum(AppTenure) /\ AppTenure.n # 0
  /\ \A i \in 1..Len(BureauAccounts.items) :
       LET a == BureauAccounts.items[i]
       IN a.status = Str("active") /\ a.account_type \in {Str("loan"), Str("credit_card")}
          => IsNum(Get(a.emi_amount, Num(0)))

\* C18 as stated: every input that passes the hard reject chain with an
\* adjusted income <= 0 gets FOIR 1.0 and is REJECTED by the FOIR gate.
C18_AsStated ==
  Done /\ "FOIR_CHECK" \in Range(trace) /\ AdjustedIncomeNotPositive
  => /\ result.decision = "REJECTED"
     /\ result.foir = Num(Scale)

\* C18 (amended): an input that passes the hard reject chain with an adjusted
\* income <= 0 gets FOIR 1.0 and is REJECTED by the FOIR gate when the EMI
\* arithmetic that precedes the income test raises nothing (numeric EMIs of
\* the active loan and credit_card accounts, numeric requested_amount, numeric
\* non-zero preferred_tenure); when that arithmetic raises, the result is
\* MANUAL_REVIEW with a Waterfall evaluation error.
C18_NonPositiveIncomeRejects ==
  Done /\ "FOIR_CHECK" \in Range(trace) /\ AdjustedIncomeNotPositive
  => /\ FoirInputsNumeric
          => /\ foir_result = Num(Scale)
             /\ result = PolicyResult("REJECTED", NoneV, NoneV, NoneV, NoneList,
                             List(<<Reason("foir_exceeds", Scale, 550000, "")>>),
                             Num(Scale), NoneV)
     /\ ~FoirInputsNumeric => IsErrorResult(result, "Waterfall evaluation error")

C18_Witness ==
  /\ Done
  /\ "FOIR_CHECK" \in Range(trace)
  /\ application_data.income_sources.t = "list"
  /\ application_data.income_sources.items # <<>>
  /\ AdjustedIncomeNotPositive
  /\ _calculate_adjusted_income(application_data).val < 0
  /\ FoirInputsNumeric
  /\ result.decision = "REJECTED"
  /\ result.foir = Num(Scale)

\* the specified existing-obligations total: the emi_amount of every account
\* with status = active from index i on, whatever its account_type
RECURSIVE ActiveObligations(_, _)
ActiveObligations(accounts, i) ==
  IF i > Len(accounts) THEN 0
  ELSE (IF accounts[i].status = Str("active")
        THEN Get(accounts[i].emi_amount, Num(0)).n ELSE 0)
       + ActiveObligations(accounts, i + 1)

\* C20: for a bureau report whose EMIs are numbers, the existing-obligations
\* total that the FOIR calculator uses and the one that the Loan-Term Solver
\* uses are the same, and both are the sum of emi_amount over all accounts
\* with status = active, whatever their account_type.
C20_SameObligations ==
  Done /\ "FOIR_CHECK" \in Range(trace) /\ WellFormed
  => /\ FoirEmis(BureauAccounts.items, 1).val = ActiveObligations(BureauAccounts.items, 1)
     /\ ExistingEmis(BureauAccounts.items, 1).val = ActiveObligations(BureauAccounts.items, 1)

(***************************************************************************)
(* Concurrent evaluations on the one shared instance.  Every call of        *)
(* evaluate_application has its own frame (its two records and the locals   *)
(* of _apply_waterfall_policy); the calls share the engine's attributes and *)
(* the clock.  The calls are interleaved stage by stage, which allows every *)
(* schedule an event loop or a pool of threads can produce.                 *)
(***************************************************************************)
MaxCalls == 2

\* the frame of a call that has not run yet
NewCall(app, bureau) ==
  [application_data |-> app, bureau_data |-> bureau, pc |-> "START",
   foir_result |-> NoneV, credit_assessment |-> NoAssessment, risk_scale |-> NoneV,
   result |-> NoResult, overlapped |-> FALSE]

\* return r from the call
Returned(call, r) == [call EXCEPT !.pc = "DONE", !.result = r]

\* the loop of _apply_hard_reject_rules over the rule list of the instance
RECURSIVE ChainOver(_, _, _, _, _)
ChainOver(rules, reject_reasons, app, bureau, clock) ==
  IF rules = <<>> THEN Ok(reject_reasons)
  ELSE LET outcome == CallRule(Head(rules), app, bureau, clock)
       IN IF outcome.fault THEN outcome
          ELSE ChainOver(Tail(rules), reject_reasons \o outcome.val, app, bureau, clock)

\* the frame after the stage call.pc has run, rules being
\* self.hard_reject_rules as the stage finds it
RunStage(call, rules, clock) ==
  CASE call.pc = "START" ->
         IF call.application_data.t = "none"
         THEN Returned(call, PolicyError("AttributeError"))
         ELSE [call EXCEPT !.pc = "HARD_REJECT_CHECK"]
    [] call.pc = "HARD_REJECT_CHECK" ->
         LET hard_reject_result ==
               ChainOver(rules, <<>>, call.application_data, call.bureau_data, clock)
         IN IF hard_reject_result.fault
            THEN Returned(call, PolicyError(hard_reject_result.exc))
            ELSE IF hard_reject_result.val # <<>>
                 THEN Returned(call, HardRejected(hard_reject_result.val))
                 ELSE [call EXCEPT !.pc = "FOIR_CHECK"]
    [] call.pc = "FOIR_CHECK" ->
         LET foir == _calculate_foir(call.application_data, call.bureau_data)
         IN IF foir.fault THEN Returned(call, WaterfallError(foir.exc))
            ELSE IF ExceedsMaxFoir(foir.val)
                 THEN Returned([call EXCEPT !.foir_result = Num(foir.val)],
                               FoirRejected(foir.val))
                 ELSE [call EXCEPT !.foir_result = Num(foir.val), !.pc = "CREDIT_ASSESS"]
    [] call.pc = "CREDIT_ASSESS" ->
         LET assessment == _assess_credit_profile(call.application_data, call.bureau_data)
         IN IF assessment.fault THEN Returned(call, WaterfallError(assessment.exc))
            ELSE [call EXCEPT !.credit_assessment = assessment.val, !.pc = "RISK_SCALE"]
    [] call.pc = "RISK_SCALE" ->
         [call EXCEPT
            !.risk_scale = Num(_determine_risk_scale(call.credit_assessment,
                                                     call.application_data)),
            !.pc = "TERM_SOLVE"]
    [] call.pc = "TERM_SOLVE" ->
         LET loan_terms == _calculate_loan_terms(call.application_data, call.bureau_data,
                                                 call.foir_result.n, call.risk_scale.n,
                                                 call.credit_assessment)
         IN IF loan_terms.fault THEN Returned(call, WaterfallError(loan_terms.exc))
            ELSE Returned(call, Approved(loan_terms.val, call.foir_result.n,
                                         call.risk_scale.n))

\* a call run from its current stage to its return, with no other call
RECURSIVE RunToReturn(_, _)
RunToReturn(call, clock) ==
  IF call.pc = "DONE" THEN call.result
  ELSE RunToReturn(RunStage(call, PolicyEngine.hard_reject_rules, clock), clock)

\* the result of evaluate_application(application_data, bureau_data) run alone
evaluate_application(app, bureau, clock) == RunToReturn(NewCall(app, bureau), clock)

\* some other call than c is between its first stage and its return
OthersInFlight(c) ==
  \E d \in DOMAIN calls : d # c /\ calls[d].pc \notin {"START", "DONE"}

\* variant: the chain consumes the shared rule list as it runs
\* (self.hard_reject_rules.pop(0) in place of the for loop)
CallStageConsumingRules(c) ==
  /\ c \in DOMAIN calls
  /\ calls[c].pc # "DONE"
  /\ calls' = [calls EXCEPT
                 ![c] = [RunStage(calls[c], engine.hard_reject_rules, now) EXCEPT
                           !.overlapped = @ \/ OthersInFlight(c)]]
  /\ engine' = IF calls[c].pc = "HARD_REJECT_CHECK"
                THEN [engine EXCEPT !.hard_reject_rules = <<>>]
                ELSE engine
  /\ UNCHANGED <<application_data, bureau_data, now, pc, foir_result,
                 credit_assessment, risk_scale, result, trace, evaluation, prev>>

\* call c runs its next stage; the stage reads the engine and writes the
\* frame of c only
CallStage(c) ==
  /\ c \in DOMAIN calls
  /\ calls[c].pc # "DONE"
  /\ calls' = [calls EXCEPT
                 ![c] = [RunStage(calls[c], engine.hard_reject_rules, now) EXCEPT
                           !.overlapped = @ \/ OthersInFlight(c)]]
  /\ UNCHANGED <<engine, application_data, bureau_data, now, pc, foir_result,
                 credit_assessment, risk_scale, result, trace, evaluation, prev>>

\* the records the concurrent callers pass: Scenario B and inputs that end
\* at each of the other exits of the evaluation
CallInputs ==
  { <<ScenarioApplication, ScenarioBureau>>,
    <<[ScenarioApplication EXCEPT !.monthly_income = Num(20000)], ScenarioBureau>>,
    <<[ScenarioApplication EXCEPT !.requested_amount = Num(2000000)], ScenarioBureau>>,
    <<[ScenarioApplication EXCEPT !.requested_amount = Num(40000)], ScenarioBureau>>,
    <<[ScenarioApplication EXCEPT !.t = "none"], ScenarioBureau>>,
    <<ScenarioApplication, [ScenarioBureau EXCEPT !.platform_data = PlatformData(NoneV)]>> }

InitConcurrent ==
  /\ calls \in [1..MaxCalls -> {NewCall(input[1], input[2]) : input \in CallInputs}]
  /\ engine = PolicyEngine
  /\ application_data = ScenarioApplication
  /\ bureau_data = ScenarioBureau
  /\ now = 0
  /\ pc = "START"
  /\ foir_result = NoneV
  /\ credit_assessment = NoAssessment
  /\ risk_scale = NoneV
  /\ result = NoResult
  /\ trace = <<>>
  /\ evaluation = 1
  /\ prev = [result |-> NoResult, clock |-> 0]

NextConcurrent == \E c \in 1..MaxCalls : CallStage(c)

SpecConcurrent == InitConcurrent /\ [][NextConcurrent]_vars

SourceWeight(source_type) ==
  IF source_type = Str("salary") THEN 10
  ELSE IF source_type = Str("pension") THEN 9
  ELSE IF source_type = Str("rental") THEN 8
  ELSE IF source_type = Str("business") THEN 7
  ELSE 6

\* the specified employment multiplier, in hundredths
EmploymentWeight(employment_type) ==
  IF employment_type = Str("government") THEN 100
  ELSE IF employment_type = Str("private_mnc") THEN 95
  ELSE IF employment_type = Str("private_domestic") THEN 90
  ELSE IF employment_type = Str("self_employed") THEN 80
  ELSE IF employment_type = Str("business") THEN 75
  ELSE 90

\* the sum of amount x weight[type] over the sources from index i, in tenths
RECURSIVE WeightedSources(_, _)
WeightedSources(income_sources, i) ==
  IF i > Len(income_sources) THEN 0
  ELSE (Get(income_sources[i].amount, Num(0)).n
          * SourceWeight(Get(income_sources[i].type, Str("other"))))
       + WeightedSources(income_sources, i + 1)

\* the specified adjusted income of the application, in rupees
SpecifiedAdjustedIncome ==
  LET sources == application_data.income_sources.items
      weight == EmploymentWeight(Get(application_data.employment_type,
                                     Str("private_domestic")))
  IN IF sources # <<>>
     THEN (WeightedSources(sources, 1) * weight) \div 1000
     ELSE (AppIncome.n * weight) \div 100

\* C21: for an application whose amounts are numbers the adjusted income the
\* FOIR stage computes is, when income_sources is non-empty, the sum of
\* amount x weight[type] (salary 1.0, pension 0.9, rental 0.8, business 0.7,
\* other and unknown 0.6) times the employment multiplier (government 1.0,
\* private_mnc 0.95, private_domestic 0.9, self_employed 0.8, business 0.75,
\* any other 0.9), monthly_income having no part in it, and is monthly_income
\* times the employment multiplier when income_sources is empty or absent.
C21_AdjustedIncome ==
  Done /\ "FOIR_CHECK" \in Range(trace) /\ WellFormed
  => _calculate_adjusted_income(application_data) = Ok(SpecifiedAdjustedIncome)

\* three sources, one of an unknown type and one without a type:
\* (30000 x 0.9 + 20000 x 0.6 + 10000 x 0.6) x 0.95 = 42750
C21_Witness ==
  /\ Done
  /\ "FOIR_CHECK" \in Range(trace)
  /\ WellFormed
  /\ Len(application_data.income_sources.items) = 3
  /\ application_data.monthly_income = Num(60000)
  /\ _calculate_adjusted_income(application_data) = Ok(42750)
  /\ foir_result.t = "num"

\* a reason of the bureau-defaults gate about an account
IsAccountReason(reason) == reason.kind \in {"recent_default", "default"}

\* the reasons the result of the hard reject chain carries, none when the
\* chain did not reject
ChainReasons ==
  IF result.decision = "REJECTED" /\ trace = <<"START", "HARD_REJECT_CHECK">>
  THEN result.reasons.items ELSE <<>>

\* what the claim makes the gate owe for account a at the evaluation time:
\* a reason for a date that parses and is later than 730 days before now, a
\* reason for a date that is given and does not parse, nothing otherwise
OwedForAccount(a) ==
  IF a.status \in {Str("default"), Str("write_off"), Str("settled")}
  THEN IF a.last_payment_date.t = "date"
       THEN IF a.last_payment_date.n > now - 730
            THEN <<Reason("recent_default", 0, 730, Get(a.account_type, Str("account")).s)>>
            ELSE <<>>
       ELSE IF Truthy(Get(a.last_payment_date, NoneV))
            THEN <<Reason("default", 0, 0, Get(a.account_type, Str("account")).s)>>
            ELSE <<>>
  ELSE <<>>

RECURSIVE OwedForAccounts(_, _)
OwedForAccounts(accounts, i) ==
  IF i > Len(accounts) THEN <<>>
  ELSE OwedForAccount(accounts[i]) \o OwedForAccounts(accounts, i + 1)

SpecifiedBaseRate(months) ==
  IF months = 12 THEN 11500
  ELSE IF months = 24 THEN 12000
  ELSE IF months = 36 THEN 12500
  ELSE IF months = 48 THEN 13000
  ELSE IF months = 60 THEN 13500
  ELSE 12000

\* C23: in every APPROVED result tenure_months is the application's
\* preferred_tenure (24 when the key is absent) and interest_rate is
\* base_rate[preferred_tenure] x risk_scale_factor, with base_rate 11.5, 12.0,
\* 12.5, 13.0, 13.5 for 12, 24, 36, 48, 60 months and 12.0 for any other
\* tenure, and risk_scale_factor the value in the same result.
C23_ApprovedTerms ==
  Done /\ result.decision = "APPROVED"
  => /\ result.tenure_months = AppTenure
     /\ result.risk_scale_factor.t = "num"
     /\ result.interest_rate.t = "num"
     /\ result.interest_rate.n * 100
          = SpecifiedBaseRate(AppTenure.n) * result.risk_scale_factor.n

\* a tenure that is not in the table: 18 months at 12.0 x 0.75 = 9.0
C23_Witness ==
  /\ Done
  /\ result.decision = "APPROVED"
  /\ application_data.preferred_tenure = Num(18)
  /\ result.tenure_months = Num(18)
  /\ result.risk_scale_factor = Num(75)
  /\ result.interest_rate = Num(9000)

\* C24: in every APPROVED result the conditions list holds exactly one
\* reduction condition, naming the requested and the approved figure, when
\* approved_amount < requested_amount, and is empty when approved_amount =
\* requested_amount (approved_amount never exceeds requested_amount).
C24_ReductionCondition ==
  Done /\ result.decision = "APPROVED"
  => /\ result.approved_amount.t = "num" /\ AppRequested.t = "num"
     /\ result.approved_amount.n <= AppRequested.n
     /\ result.conditions.t = "list"
     /\ result.approved_amount.n < AppRequested.n
          => result.conditions.items
               = <<Reason("amount_reduced", result.approved_amount.n, AppRequested.n, "")>>
     /\ result.approved_amount.n = AppRequested.n
          => result.conditions.items = <<>>

\* a request above the ceiling, approved at MAX_LOAN_AMOUNT with one condition
C24_Witness ==
  /\ Done
  /\ result.decision = "APPROVED"
  /\ AppRequested.n > MAX_LOAN_AMOUNT
  /\ result.approved_amount = Num(MAX_LOAN_AMOUNT)
  /\ Len(result.conditions.items) = 1
  /\ result.conditions.items[1].value = MAX_LOAN_AMOUNT
  /\ result.conditions.items[1].threshold = AppRequested.n

\* the accounts of a report that have a non-empty payment_history
WithHistory(accounts) == SelectSeq(accounts, LAMBDA a : a.payment_history # <<>>)

\* the specified payment-history score, in millionths: the mean of the on-time
\* fractions over the accounts that have a history
SpecifiedPaymentHistoryScore(accounts) ==
  IF accounts = <<>> THEN Scale \div 2
  ELSE PaymentScoreTotal(WithHistory(accounts), 1) \div Len(WithHistory(accounts))

\* C25: the payment-history score is the mean, over only the accounts that
\* have a non-empty payment_history, of each such account's fraction of
\* entries equal to "0"; accounts with an empty history enter neither the
\* numerator nor the denominator; the score is 0.5 when there are no accounts.
\* (Stated for reports with no account or with at least one history.)
C25_PaymentHistoryScore ==
  /\ "RISK_SCALE" \in Range(trace)
  /\ credit_assessment # NoAssessment
  /\ BureauAccounts.items = <<>> \/ WithHistory(BureauAccounts.items) # <<>>
  => credit_assessment.payment_history_score
       = SpecifiedPaymentHistoryScore(BureauAccounts.items)

\* the specified band of a credit score
SpecifiedBand(score) ==
  IF score >= 750 THEN "EXCELLENT"
  ELSE IF score >= 700 THEN "GOOD"
  ELSE IF score >= 650 THEN "FAIR"
  ELSE "POOR"

GateReasonKinds ==
  {"min_income", "credit_score", "age", "employment", "recent_default",
   "default", "enquiries", "debt_velocity"}

\* C27: when a hard reject rule raises while the chain is running the result
\* is MANUAL_REVIEW with exactly one reason, prefixed 'Policy evaluation
\* error:', and no reason collected by the earlier rules of the chain is kept,
\* whichever gates fail; when the chain has passed, a MANUAL_REVIEW result is
\* that of a fault in a waterfall stage and has exactly one reason, prefixed
\* 'Waterfall evaluation error:'.
C27_ChainFaultDiscardsReasons ==
  Done
  => /\ ~NoRuleRaises
          => /\ IsErrorResult(result, "Policy evaluation error")
             /\ result.reasons.items[1].subject \in {"TypeError", "AttributeError"}
             /\ \A i \in 1..Len(result.reasons.items) :
                   result.reasons.items[i].kind \notin GateReasonKinds
             /\ "FOIR_CHECK" \notin Range(trace)
     /\ NoRuleRaises /\ result.decision = "MANUAL_REVIEW"
          => /\ ~SomeGateFails
             /\ "FOIR_CHECK" \in Range(trace)
             /\ IsErrorResult(result, "Waterfall evaluation error")
     /\ NoRuleRaises /\ ~SomeGateFails /\ ~FoirInputsNumeric
          => result.decision = "MANUAL_REVIEW"

\* the score gate has collected a reason when the velocity rule raises on a
\* platform_data that is None
C27_Witness ==
  /\ Done
  /\ ScoreGateFails
  /\ bureau_data.t = "dict" /\ bureau_data.platform_data.t = "none"
  /\ IsErrorResult(result, "Policy evaluation error")
  /\ result.reasons.items[1].subject = "AttributeError"

\* an account in one of the three adverse statuses
Adverse(a) == a.status \in {Str("default"), Str("write_off"), Str("settled")}

\* an account whose last_payment_date is absent or empty
Dateless(a) == a.last_payment_date \in {Missing, NoneV, Str("")}

\* an adverse account with a date, parsable or not
DatedOrSound(a) == ~(Adverse(a) /\ Dateless(a))

\* an enquiry whose date parses
DatedEnquiry(e) == e.date.t = "date"

\* C28: missing dates are non-offending.  An account with status default,
\* write_off or settled whose last_payment_date is absent or empty
\* contributes no reason (the account reasons are those of the report
\* without these accounts); an enquiry whose date is absent or unparsable is
\* not counted (a reported count never exceeds the number of enquiries whose
\* date parses); and when no other gate fails, every adverse account is
\* dateless and at most five enquiries carry a date that parses, the chain
\* does not reject.
C28_MissingDatesNotOffending ==
  Done /\ NoRuleRaises
  => /\ SelectSeq(ChainReasons, IsAccountReason)
          = OwedForAccounts(SelectSeq(BureauAccounts.items, DatedOrSound), 1)
     /\ \A i \in 1..Len(ChainReasons) :
          ChainReasons[i].kind = "enquiries"
          => ChainReasons[i].value <= Len(SelectSeq(BureauEnquiries.items, DatedEnquiry))
     /\ (/\ ~IncomeGateFails /\ ~ScoreGateFails /\ ~AgeGateFails
         /\ ~EmploymentGateFails /\ ~VelocityGateFails
         /\ \A i \in 1..Len(BureauAccounts.items) :
              Adverse(BureauAccounts.items[i]) => Dateless(BureauAccounts.items[i])
         /\ Len(SelectSeq(BureauEnquiries.items, DatedEnquiry)) <= 5)
          => ChainReasons = <<>> /\ "FOIR_CHECK" \in Range(trace)

\* a default without a date, a settled account with an empty date: approved
C28_Witness ==
  /\ Done
  /\ Len(BureauAccounts.items) = 2
  /\ BureauAccounts.items[1].status = Str("default")
  /\ BureauAccounts.items[1].last_payment_date = Missing
  /\ BureauAccounts.items[2].status = Str("settled")
  /\ BureauAccounts.items[2].last_payment_date = Str("")
  /\ result.decision = "APPROVED"

\* well-formed payment histories: lists of the codes "0", "1", "2", "3", "X"
HistoryValues == {<<"0">>, <<"1", "X">>}

\* the bureau report with the payment_history of account i replaced by
\* histories[i], everything else as it is
WithHistories(bureau, histories) ==
  [bureau EXCEPT !.accounts.items =
     [i \in 1..Len(bureau.accounts.items) |->
        [bureau.accounts.items[i] EXCEPT !.payment_history = histories[i]]]]

\* C29: the decision and the terms do not depend on the payment histories:
\* the evaluation, at the same time, of the same application with a bureau
\* report that differs only in the accounts' payment_history lists returns
\* the same PolicyResult.
C29_HistoriesDoNotMatter ==
  Done /\ application_data.t = "dict" /\ bureau_data.t = "dict"
  => \A histories \in [1..Len(bureau_data.accounts.items) -> HistoryValues] :
       evaluate_application(application_data, WithHistories(bureau_data, histories), now)
         = result

\* an approved report of two accounts whose scores do change with the histories
C29_Witness ==
  /\ Done
  /\ result.decision = "APPROVED"
  /\ bureau_data.t = "dict"
  /\ Len(bureau_data.accounts.items) = 2
  /\ credit_assessment.payment_history_score = 250000
  /\ _assess_payment_history(
       WithHistories(bureau_data, [i \in 1..2 |-> <<"0">>])) = Scale

\* the operands of the FOIR formula other than the tenure are numbers
FoirInputsNumericButTenure ==
  /\ IsNum(AppRequested)
  /\ ~_calculate_adjusted_income(application_data).fault
  /\ \A i \in 1..Len(BureauAccounts.items) :
       LET a == BureauAccounts.items[i]
       IN a.status = Str("active") /\ a.account_type \in {Str("loan"), Str("credit_card")}
          => IsNum(Get(a.emi_amount, Num(0)))

\* C30: no APPROVED result has tenure_months <= 0.  An application that
\* passes the hard reject chain with preferred_tenure = 0 ends in
\* MANUAL_REVIEW at the FOIR stage (the EMI formula divides by zero, unless a
\* non-numeric operand faults first); one with a negative preferred_tenure is
\* never APPROVED: when it reaches the term solver the solved maximum
\* principal is not positive and the result is MANUAL_REVIEW.
C30_NoNonPositiveTenureApproved ==
  Done
  => /\ result.decision = "APPROVED"
          => result.tenure_months.t = "num" /\ result.tenure_months.n > 0
     /\ "FOIR_CHECK" \in Range(trace) /\ AppTenure = Num(0)
          => /\ IsErrorResult(result, "Waterfall evaluation error")
             /\ trace = <<"START", "HARD_REJECT_CHECK", "FOIR_CHECK">>
             /\ FoirInputsNumericButTenure
                  => result.reasons.items[1].subject = "ZeroDivisionError"
     /\ AppTenure.t = "num" /\ AppTenure.n < 0
          => /\ result.decision # "APPROVED"
             /\ "TERM_SOLVE" \in Range(trace)
                  => /\ ~SolvedPrincipal.fault => SolvedPrincipal.val <= 0
                     /\ IsErrorResult(result, "Waterfall evaluation error")

\* a tenure of -12 months passes the FOIR gate with a negative ratio and
\* faults in the term solver on a negative principal
C30_Witness ==
  /\ Done
  /\ AppTenure = Num(0 - 12)
  /\ foir_result.t = "num" /\ foir_result.n < 0
  /\ "TERM_SOLVE" \in Range(trace)
  /\ ~SolvedPrincipal.fault /\ SolvedPrincipal.val < 0
  /\ IsErrorResult(result, "Waterfall evaluation error")
  /\ result.reasons.items[1].subject = "ValueError"

====
